---- MODULE Spec2Model ----
(***************************************************************************)
(* A model of the median-of-two-sorted-arrays engine, the palindrome-pair  *)
(* engine, the two statistics-tracking services, the request validation    *)
(* and handlers of the median endpoints and the event loop they run on, of *)
(* python-tornado-common-logic.                                            *)
(*                                                                         *)
(* Python values are modelled as follows.                                  *)
(*  - A number, or anything found where a number is expected, is a record  *)
(*    [k, v]: k = "num" for a finite int/float of value v, "nan" for       *)
(*    float('nan'), "str" for a value that is neither int nor float (a     *)
(*    string, None, ...), "-inf" / "+inf" for the two float infinities the *)
(*    partition search uses as sentinels, "big" for an int above the range *)
(*    of a float (10**400), whose conversion to float raises               *)
(*    OverflowError.                                                       *)
(*  - A float returned by the median engine is such a record whose v       *)
(*    counts HALVES (v = 5 is 2.5), so that (a + b) / 2.0 is exact.        *)
(*  - An argument that is a list or None is a record [isNone, items].      *)
(*  - A Python str is a record [isStr, chars], chars a sequence of         *)
(*    one-character strings; isStr = FALSE is a value that is not a str.   *)
(*  - Python indices are 0-based; sequences here are 1-based, so a[i] of   *)
(*    the source is a[i + 1] here.  Index pairs reported by the palindrome *)
(*    engine keep the source's 0-based values.                             *)
(***************************************************************************)
EXTENDS Integers, Sequences, FiniteSets, TLC

VARIABLES
    arg1, arg2,   \* the caller's two arguments of find_median_sorted_arrays
    med,          \* the frame of find_median_sorted_arrays: its locals and position
    words,        \* the argument of a palindrome engine function taking a word list
    text,         \* the argument of is_palindrome / is_palindrome_optimized
    pal,          \* the palindrome engine call made and what it returned or raised
    msvc,         \* the counters of the process's MedianCalculationService
    psvc,         \* the counters of the process's PalindromeCalculationService
    last,         \* the last service operation and how it ended; after is the caller's
                  \* request object as calculate_median left it
    mok, pok,     \* successful calls of each service since its construction or last reset
    mfailed, pfailed, \* whether a call of the service failed since then
    sums,         \* what the successful tracked calls since then took and returned, summed
    tasks,        \* the coroutines dispatched on the event loop, each with its locals and
                  \* position
    running       \* the task the event loop is running, 0 when the loop is idle

medVars == <<arg1, arg2, med>>

palVars == <<words, text, pal>>

svcVars == <<msvc, psvc, last, mok, pok, mfailed, pfailed, sums>>

conVars == <<tasks, running>>

vars == <<medVars, palVars, svcVars, conVars>>

----------------------------------------------------------------------------
(* Bounds of the model *)

MaxLen == 3

MaxVal == 2

----------------------------------------------------------------------------
(* Python values *)

Num(v) == [k |-> "num", v |-> v]

NaN == [k |-> "nan", v |-> 0]

Str == [k |-> "str", v |-> 0]

NegInf == [k |-> "-inf", v |-> 0]

PosInf == [k |-> "+inf", v |-> 0]

\* an int too large to convert to float
Big == [k |-> "big", v |-> 0]

\* what float(x) or x / 2.0 gives where it raises OverflowError
Overflow == [k |-> "overflow", v |-> 0]

\* where a value stands among the others: -inf, the finite numbers, Big, +inf
Rank(a) ==
    CASE a.k = "-inf" -> 0
      [] a.k = "num" -> 1
      [] a.k = "big" -> 2
      [] OTHER -> 3

List(items) == [isNone |-> FALSE, items |-> items]

None == [isNone |-> TRUE, items |-> <<>>]

Tuple(items) == [isNone |-> FALSE, items |-> items]

PyStr(chars) == [isStr |-> TRUE, chars |-> chars]

\* a value that is not a str (an int, None, ...)
NotAStr == [isStr |-> FALSE, chars |-> <<>>]

\* no engine call made yet
Idle == [op |-> "idle", ret |-> [kind |-> "none"]]

\* a < b on ints and floats; no comparison with NaN holds
Lt(a, b) ==
    IF a.k = "num" /\ b.k = "num" THEN a.v < b.v
    ELSE /\ {a.k, b.k} \subseteq {"-inf", "num", "big", "+inf"}
         /\ Rank(a) < Rank(b)

Le(a, b) == Lt(a, b) \/ a = b

\* a bug: the first argument, whatever the second
PyMaxFirst(a, b) == a

PyMax(a, b) == IF Lt(a, b) THEN b ELSE a

PyMin(a, b) == IF Lt(b, a) THEN b ELSE a

\* float(x) of one element, in halves
ToFloat(x) == IF x.k = "big" THEN Overflow ELSE [k |-> x.k, v |-> 2 * x.v]

\* (a + b) / 2.0, in halves
Average(a, b) ==
    IF a.k = "big" \/ b.k = "big" THEN Overflow
    ELSE IF a.k = "num" /\ b.k = "num" THEN [k |-> "num", v |-> a.v + b.v]
    ELSE IF a.k = "num" THEN b
    ELSE IF b.k = "num" THEN a
    ELSE IF a.k = b.k THEN a
    ELSE NaN

\* how a call ends: a returned value, or a raised exception of class error; check
\* names the statement that raised it
Returned(value) == [kind |-> "return", value |-> value]

Raised(error, check) == [kind |-> "raise", error |-> error, check |-> check]

NoResult == [kind |-> "none"]

\* the operation takes no request
NoRequest == [kind |-> "none"]

\* nothing summed yet
NoSums == [mtime |-> 0, ptime |-> 0, pairs |-> 0, words |-> 0]

----------------------------------------------------------------------------
(* app/utils/array_operations.py *)

\* a bug: the NaN test (val != val) left out
InvalidValueNoNaN(val) == val.k = "str"

\* isinstance(val, (int, float)) fails, or val != val
InvalidValue(val) == val.k = "str" \/ val.k = "nan"

\* _validate_array_contents raises
ContentsInvalid(arr) == \E i \in 1..Len(arr) : InvalidValue(arr[i])

\* _validate_array_sorted raises
NotSorted(arr) == \E i \in 2..Len(arr) : Lt(arr[i], arr[i - 1])

FindMedianSingleArray(arr) ==
    LET n == Len(arr) IN
    IF n % 2 = 1
    THEN ToFloat(arr[(n \div 2) + 1])
    ELSE Average(arr[n \div 2], arr[(n \div 2) + 1])

\* a bug: the half of the total rounded down
HalfRoundedDown(total) == total \div 2

Half(total) == (total + 1) \div 2

\* the frame at entry; passes counts the passes of the while loop begun so far
Frame(nums1, nums2) ==
    [pc |-> "validate", nums1 |-> nums1, nums2 |-> nums2,
     m |-> 0, n |-> 0, total |-> 0, half |-> 0, left |-> 0, right |-> 0,
     passes |-> 0, ret |-> NoResult]

Raise(f, error, check) == [f EXCEPT !.pc = "done", !.ret = Raised(error, check)]

Return(f, value) == [f EXCEPT !.pc = "done", !.ret = Returned(value)]

\* return float(value), which raises when the conversion does
ReturnFloat(f, value) ==
    IF value = Overflow
    THEN Raise(f, "OverflowError", "float")
    ELSE Return(f, value)

\* an exception whose message names an index of the array
RaisedAt(error, check, index) ==
    [kind |-> "raise", error |-> error, check |-> check, index |-> index]

\* lines 119-120: the scan of _validate_array_contents from index i (0-based); the
\* index at which it raises
RECURSIVE InvalidIndexFrom(_, _)
InvalidIndexFrom(arr, i) ==
    IF InvalidValue(arr[i + 1]) THEN i ELSE InvalidIndexFrom(arr, i + 1)

\* lines 129-130: the scan of _validate_array_sorted from index i; the index at
\* which it raises
RECURSIVE DescentIndexFrom(_, _)
DescentIndexFrom(arr, i) ==
    IF Lt(arr[i + 1], arr[i]) THEN i ELSE DescentIndexFrom(arr, i + 1)

\* a bug: the order of the elements is checked before what they are
ValidationSortedFirst(nums1, nums2) ==
    IF nums1.isNone \/ nums2.isNone
    THEN Raised("ArrayOperationError", "none")
    ELSE IF NotSorted(nums1.items)
    THEN RaisedAt("ArrayOperationError", "sorted nums1", DescentIndexFrom(nums1.items, 1))
    ELSE IF NotSorted(nums2.items)
    THEN RaisedAt("ArrayOperationError", "sorted nums2", DescentIndexFrom(nums2.items, 1))
    ELSE IF ContentsInvalid(nums1.items)
    THEN RaisedAt("ArrayOperationError", "contents nums1", InvalidIndexFrom(nums1.items, 0))
    ELSE IF ContentsInvalid(nums2.items)
    THEN RaisedAt("ArrayOperationError", "contents nums2", InvalidIndexFrom(nums2.items, 0))
    ELSE NoResult

\* lines 47-56: the None check, then the contents of each array, then the order of
\* each; what the first check that fails raises, NoResult when none does
Validation(nums1, nums2) ==
    IF nums1.isNone \/ nums2.isNone
    THEN Raised("ArrayOperationError", "none")
    ELSE IF ContentsInvalid(nums1.items)
    THEN RaisedAt("ArrayOperationError", "contents nums1", InvalidIndexFrom(nums1.items, 0))
    ELSE IF ContentsInvalid(nums2.items)
    THEN RaisedAt("ArrayOperationError", "contents nums2", InvalidIndexFrom(nums2.items, 0))
    ELSE IF NotSorted(nums1.items)
    THEN RaisedAt("ArrayOperationError", "sorted nums1", DescentIndexFrom(nums1.items, 1))
    ELSE IF NotSorted(nums2.items)
    THEN RaisedAt("ArrayOperationError", "sorted nums2", DescentIndexFrom(nums2.items, 1))
    ELSE NoResult

\* lines 47-56
ValidateStep(f) ==
    IF Validation(f.nums1, f.nums2) # NoResult
    THEN [f EXCEPT !.pc = "done", !.ret = Validation(f.nums1, f.nums2)]
    ELSE [f EXCEPT !.pc = "edge"]

\* lines 61-68: both empty, or one empty
EdgeStep(f) ==
    IF Len(f.nums1.items) = 0 /\ Len(f.nums2.items) = 0
    THEN Raise(f, "ArrayOperationError", "both empty")
    ELSE IF Len(f.nums1.items) = 0
    THEN ReturnFloat(f, FindMedianSingleArray(f.nums2.items))
    ELSE IF Len(f.nums2.items) = 0
    THEN ReturnFloat(f, FindMedianSingleArray(f.nums1.items))
    ELSE [f EXCEPT !.pc = "setup"]

\* a bug: the arrays are searched as they were given
SwapNever(nums1, nums2) == FALSE

\* line 71: whether the two references are swapped
SwapNeeded(nums1, nums2) == Len(nums1.items) > Len(nums2.items)

\* a bug: the contents of the two lists are exchanged in place
ArgumentsExchanged(nums1, nums2) ==
    IF SwapNeeded(nums1, nums2)
    THEN [nums1 |-> nums2, nums2 |-> nums1]
    ELSE [nums1 |-> nums1, nums2 |-> nums2]

\* the caller's two lists as the call leaves them: line 72 binds the function's
\* local names nums1 and nums2 anew, and no statement of the function assigns to an
\* element of a list or calls a method that changes one
ArgumentsAfter(nums1, nums2) == [nums1 |-> nums1, nums2 |-> nums2]

\* lines 71-78: nums1 becomes the shorter array; the search window is [0, m]
SetupStep(f) ==
    LET x == IF SwapNeeded(f.nums1, f.nums2) THEN f.nums2 ELSE f.nums1
        y == IF SwapNeeded(f.nums1, f.nums2) THEN f.nums1 ELSE f.nums2
        m == Len(x.items)
        n == Len(y.items)
    IN [f EXCEPT !.pc = "loop", !.nums1 = x, !.nums2 = y, !.m = m, !.n = n,
                 !.total = m + n, !.half = Half(m + n), !.left = 0, !.right = m]

PartitionX(f) == (f.left + f.right) \div 2

PartitionY(f) == f.half - PartitionX(f)

MaxLeftX(f) ==
    IF PartitionX(f) = 0 THEN NegInf ELSE f.nums1.items[PartitionX(f)]

MinRightX(f) ==
    IF PartitionX(f) = f.m THEN PosInf ELSE f.nums1.items[PartitionX(f) + 1]

MaxLeftY(f) ==
    IF PartitionY(f) = 0 THEN NegInf ELSE f.nums2.items[PartitionY(f)]

MinRightY(f) ==
    IF PartitionY(f) = f.n THEN PosInf ELSE f.nums2.items[PartitionY(f) + 1]

\* line 92
CorrectPartition(f) == Le(MaxLeftX(f), MinRightY(f)) /\ Le(MaxLeftY(f), MinRightX(f))

\* lines 94-101
PartitionMedian(f) ==
    IF f.total % 2 = 1
    THEN ToFloat(PyMax(MaxLeftX(f), MaxLeftY(f)))
    ELSE Average(PyMax(MaxLeftX(f), MaxLeftY(f)), PyMin(MinRightX(f), MinRightY(f)))

\* a bug: the test of the other pair of neighbours
TooFarLeft(f) == Lt(MinRightX(f), MaxLeftY(f))

\* line 106: max_left_x > min_right_y
TooFarRight(f) == Lt(MinRightY(f), MaxLeftX(f))

\* a bug: the partition just tried stays in the window
RightKept(f) == PartitionX(f)

\* line 108: the window's new right end
RightShrunk(f) == PartitionX(f) - 1

\* lines 80-114: the loop test and one pass of the body, or the raise after the loop
LoopStep(f) ==
    IF ~(f.left <= f.right)
    THEN Raise(f, "ArrayOperationError", "unable")
    ELSE IF CorrectPartition(f)
    THEN ReturnFloat([f EXCEPT !.passes = @ + 1], PartitionMedian(f))
    ELSE IF TooFarRight(f)
    THEN [f EXCEPT !.passes = @ + 1, !.right = RightShrunk(f)]
    ELSE [f EXCEPT !.passes = @ + 1, !.left = PartitionX(f) + 1]

Step(f) ==
    CASE f.pc = "validate" -> ValidateStep(f)
      [] f.pc = "edge" -> EdgeStep(f)
      [] f.pc = "setup" -> SetupStep(f)
      [] f.pc = "loop" -> LoopStep(f)
      [] OTHER -> f

RECURSIVE Run(_)
Run(f) == IF f.pc = "done" THEN f ELSE Run(Step(f))

\* find_median_sorted_arrays as a function of its arguments: what it returns or raises
FindMedianSortedArrays(nums1, nums2) == Run(Frame(nums1, nums2)).ret

\* lines 177-187 of merge_sorted_arrays, from indices i and j (0-based)
RECURSIVE MergeLoop(_, _, _, _, _)
MergeLoop(a, b, i, j, merged) ==
    IF i < Len(a) /\ j < Len(b)
    THEN IF Le(a[i + 1], b[j + 1])
         THEN MergeLoop(a, b, i + 1, j, Append(merged, a[i + 1]))
         ELSE MergeLoop(a, b, i, j + 1, Append(merged, b[j + 1]))
    ELSE merged \o SubSeq(a, i + 1, Len(a)) \o SubSeq(b, j + 1, Len(b))

MergeSortedArrays(nums1, nums2) ==
    IF nums1.isNone \/ nums2.isNone
    THEN Raised("ArrayOperationError", "none")
    ELSE IF ContentsInvalid(nums1.items)
    THEN Raised("ArrayOperationError", "contents nums1")
    ELSE IF ContentsInvalid(nums2.items)
    THEN Raised("ArrayOperationError", "contents nums2")
    ELSE IF NotSorted(nums1.items)
    THEN Raised("ArrayOperationError", "sorted nums1")
    ELSE IF NotSorted(nums2.items)
    THEN Raised("ArrayOperationError", "sorted nums2")
    ELSE Returned(MergeLoop(nums1.items, nums2.items, 0, 0, <<>>))

----------------------------------------------------------------------------
(* The arguments the engine is called with *)

SeqsUpTo(S, n) == UNION {[1..l -> S] : l \in 0..n}

Numbers == {Num(v) : v \in 0..MaxVal}

NumLists == SeqsUpTo(Numbers, MaxLen)

\* a list of numbers with one element replaced by NaN or by a non-number
BadLists == UNION {{[s EXCEPT ![i] = bad] : i \in DOMAIN s, bad \in {NaN, Str}} : s \in NumLists}

MedianArgs == {None} \cup {List(s) : s \in NumLists \cup BadLists}

----------------------------------------------------------------------------
(* The median engine, one call *)

InitMedian ==
    /\ arg1 \in MedianArgs
    /\ arg2 \in MedianArgs
    /\ med = Frame(arg1, arg2)
    /\ words = List(<<>>)
    /\ text = PyStr(<<>>)
    /\ pal = Idle
    /\ msvc = [call_count |-> 0, total_execution_time |-> 0]
    /\ psvc = [call_count |-> 0, total_execution_time |-> 0,
               pairs_found_total |-> 0, words_processed_total |-> 0]
    /\ last = [service |-> "none", op |-> "init", request |-> NoRequest, ret |-> NoResult]
    /\ mok = 0
    /\ pok = 0
    /\ mfailed = FALSE
    /\ pfailed = FALSE
    /\ sums = NoSums
    /\ tasks = <<>>
    /\ running = 0

Validate ==
    /\ med.pc = "validate"
    /\ med' = ValidateStep(med)
    /\ UNCHANGED <<arg1, arg2, palVars, svcVars, conVars>>

Edge ==
    /\ med.pc = "edge"
    /\ med' = EdgeStep(med)
    /\ UNCHANGED <<arg1, arg2, palVars, svcVars, conVars>>

Setup ==
    /\ med.pc = "setup"
    /\ med' = SetupStep(med)
    /\ UNCHANGED <<arg1, arg2, palVars, svcVars, conVars>>

Loop ==
    /\ med.pc = "loop"
    /\ med' = LoopStep(med)
    /\ UNCHANGED <<arg1, arg2, palVars, svcVars, conVars>>

NextMedian == Validate \/ Edge \/ Setup \/ Loop

SpecMedian == InitMedian /\ [][NextMedian]_vars

----------------------------------------------------------------------------
(* The median engine on two arrays that pass its validation and are not     *)
(* empty, one call: the partition search.  The elements are finite numbers  *)
(* and the two infinite floats, which pass the validation as well.          *)

SearchValues == Numbers \cup {NegInf, PosInf}

SearchLists == {s \in SeqsUpTo(SearchValues, MaxLen) : Len(s) > 0 /\ ~NotSorted(s)}

InitSearch ==
    /\ arg1 \in {List(s) : s \in SearchLists}
    /\ arg2 \in {List(s) : s \in SearchLists}
    /\ med = Frame(arg1, arg2)
    /\ words = List(<<>>)
    /\ text = PyStr(<<>>)
    /\ pal = Idle
    /\ msvc = [call_count |-> 0, total_execution_time |-> 0]
    /\ psvc = [call_count |-> 0, total_execution_time |-> 0,
               pairs_found_total |-> 0, words_processed_total |-> 0]
    /\ last = [service |-> "none", op |-> "init", request |-> NoRequest, ret |-> NoResult]
    /\ mok = 0
    /\ pok = 0
    /\ mfailed = FALSE
    /\ pfailed = FALSE
    /\ sums = NoSums
    /\ tasks = <<>>
    /\ running = 0

SpecSearch == InitSearch /\ [][NextMedian]_vars

----------------------------------------------------------------------------
(* The median engine on arguments that may fail several of its checks at    *)
(* once, one call: None, or a list in any order of the least and the        *)
(* greatest of the numbers, NaN and a value that is no number.              *)

ValidationValues == {Num(0), Num(MaxVal), NaN, Str}

ValidationArgs == {None} \cup {List(s) : s \in SeqsUpTo(ValidationValues, MaxLen)}

InitValidation ==
    /\ arg1 \in ValidationArgs
    /\ arg2 \in ValidationArgs
    /\ med = Frame(arg1, arg2)
    /\ words = List(<<>>)
    /\ text = PyStr(<<>>)
    /\ pal = Idle
    /\ msvc = [call_count |-> 0, total_execution_time |-> 0]
    /\ psvc = [call_count |-> 0, total_execution_time |-> 0,
               pairs_found_total |-> 0, words_processed_total |-> 0]
    /\ last = [service |-> "none", op |-> "init", request |-> NoRequest, ret |-> NoResult]
    /\ mok = 0
    /\ pok = 0
    /\ mfailed = FALSE
    /\ pfailed = FALSE
    /\ sums = NoSums
    /\ tasks = <<>>
    /\ running = 0

SpecValidation == InitValidation /\ [][NextMedian]_vars

----------------------------------------------------------------------------
(* app/utils/palindrome_operations.py *)

\* pairs[:5] in get_palindrome_statistics
ExamplesLimit == 5

\* s[::-1]
Reverse(s) == [i \in 1..Len(s) |-> s[Len(s) + 1 - i]]

Lower(c) == IF c = "A" THEN "a" ELSE c

\* a bug: the comparison made after lowering the case
ReversedEqualIgnoringCase(s) ==
    [i \in 1..Len(s) |-> Lower(s[i])] = [i \in 1..Len(s) |-> Lower(Reverse(s)[i])]

\* line 124: s == s[::-1]
ReversedEqual(s) == s = Reverse(s)

\* is_palindrome
IsPalindrome(s) ==
    IF ~s.isStr
    THEN Raised("PalindromeOperationError", "not a string")
    ELSE Returned(ReversedEqual(s.chars))

\* a bug: the scan stops one pair of characters early
ScanContinuesApart(left, right) == left + 1 < right

\* line 142: while left < right
ScanContinues(left, right) == left < right

\* lines 140-148 of is_palindrome_optimized, from the indices left and right (0-based)
RECURSIVE TwoPointerScan(_, _, _)
TwoPointerScan(s, left, right) ==
    IF ScanContinues(left, right)
    THEN IF s[left + 1] # s[right + 1]
         THEN FALSE
         ELSE TwoPointerScan(s, left + 1, right - 1)
    ELSE TRUE

IsPalindromeOptimized(s) ==
    IF ~s.isStr
    THEN Raised("PalindromeOperationError", "not a string")
    ELSE Returned(TwoPointerScan(s.chars, 0, Len(s.chars) - 1))

\* a bug: the first item is not looked at
WordListInvalidFromSecond(items) == \E i \in 2..Len(items) : ~items[i].isStr

\* _validate_word_list raises
WordListInvalid(items) == \E i \in 1..Len(items) : ~items[i].isStr

\* line 64: words[i] + words[j]
Combined(w, i, j) == w[i + 1].chars \o w[j + 1].chars

\* a bug: the pair of a word with itself is not skipped
PairTestedAlways(i, j) == TRUE

\* line 63
PairTested(i, j) == i # j

\* lines 61-66: the double loop from (i, j), result being the pairs found so far
RECURSIVE PairsLoop(_, _, _, _)
PairsLoop(w, i, j, result) ==
    IF i >= Len(w) THEN result
    ELSE IF j >= Len(w) THEN PairsLoop(w, i + 1, 0, result)
    ELSE IF PairTested(i, j) /\ IsPalindrome(PyStr(Combined(w, i, j))).value
         THEN PairsLoop(w, i, j + 1, Append(result, <<i, j>>))
         ELSE PairsLoop(w, i, j + 1, result)

FindPalindromePairs(ws) ==
    IF ws.isNone
    THEN Raised("PalindromeOperationError", "not a list")
    ELSE IF WordListInvalid(ws.items)
    THEN Raised("PalindromeOperationError", "item not a string")
    ELSE IF Len(ws.items) < 2
    THEN Returned(<<>>)
    ELSE Returned(PairsLoop(ws.items, 0, 0, <<>>))

\* a bug: the examples are not limited
AllExamples(pairs) == pairs

\* line 263: pairs[:5]
FirstExamples(pairs) ==
    SubSeq(pairs, 1, IF Len(pairs) < ExamplesLimit THEN Len(pairs) ELSE ExamplesLimit)

\* lines 262-269: one example per pair of pairs[:5]
Examples(w, pairs) ==
    [k \in 1..Len(FirstExamples(pairs)) |->
        [indices |-> FirstExamples(pairs)[k],
         words |-> <<w[FirstExamples(pairs)[k][1] + 1], w[FirstExamples(pairs)[k][2] + 1]>>,
         palindrome |->
             PyStr(Combined(w, FirstExamples(pairs)[k][1], FirstExamples(pairs)[k][2]))]]

\* a bug: only the first index of each pair is collected
FirstIndices(pairs) == {pairs[k][1] : k \in 1..Len(pairs)}

\* line 274: set(idx for pair in pairs for idx in pair)
UniqueIndices(pairs) ==
    {pairs[k][1] : k \in 1..Len(pairs)} \cup {pairs[k][2] : k \in 1..Len(pairs)}

GetPalindromeStatistics(ws) ==
    IF ws.isNone
    THEN Raised("TypeError", "enumerate")
    ELSE IF WordListInvalid(ws.items)
    THEN Raised("PalindromeOperationError", "item not a string")
    ELSE LET pairs == FindPalindromePairs(ws).value IN
         Returned([total_words |-> Len(ws.items),
                   palindrome_pairs_count |-> Len(pairs),
                   unique_words_in_pairs |-> Cardinality(UniqueIndices(pairs)),
                   examples |-> Examples(ws.items, pairs),
                   has_palindromes |-> Len(pairs) > 0])

\* a bug: a pair as long as the best so far replaces it
LongerOrEqual(length, max_length) == length >= max_length

\* line 302
Longer(length, max_length) == length > max_length

\* lines 300-304: the scan from the k-th pair (1-based), with the best so far
RECURSIVE LongestLoop(_, _, _, _, _)
LongestLoop(w, pairs, k, longest_pair, max_length) ==
    IF k > Len(pairs) THEN longest_pair
    ELSE LET length == Len(Combined(w, pairs[k][1], pairs[k][2])) IN
         IF Longer(length, max_length)
         THEN LongestLoop(w, pairs, k + 1, Tuple(<<pairs[k][1], pairs[k][2], length>>), length)
         ELSE LongestLoop(w, pairs, k + 1, longest_pair, max_length)

FindLongestPalindromePair(ws) ==
    IF ws.isNone
    THEN Raised("TypeError", "enumerate")
    ELSE IF WordListInvalid(ws.items)
    THEN Raised("PalindromeOperationError", "item not a string")
    ELSE LET pairs == FindPalindromePairs(ws).value IN
         IF pairs = <<>>
         THEN Returned(None)
         ELSE Returned(LongestLoop(ws.items, pairs, 1, None, 0))

----------------------------------------------------------------------------
(* The arguments the palindrome engine is called with *)

MaxWords == 3

MaxWordLen == 2

MaxTextLen == 4

WordAlphabet == {"a", "b"}

TextAlphabet == {"a", "A", "b", " "}

WordArgs ==
    {None} \cup
    {List(ws) : ws \in SeqsUpTo({PyStr(c) : c \in SeqsUpTo(WordAlphabet, MaxWordLen)}
                                 \cup {NotAStr}, MaxWords)}

TextArgs == {NotAStr} \cup {PyStr(c) : c \in SeqsUpTo(TextAlphabet, MaxTextLen)}

----------------------------------------------------------------------------
(* The palindrome engine on a word list, one call *)

InitWords ==
    /\ words \in WordArgs
    /\ text = PyStr(<<>>)
    /\ pal = Idle
    /\ arg1 = None
    /\ arg2 = None
    /\ med = Frame(arg1, arg2)
    /\ msvc = [call_count |-> 0, total_execution_time |-> 0]
    /\ psvc = [call_count |-> 0, total_execution_time |-> 0,
               pairs_found_total |-> 0, words_processed_total |-> 0]
    /\ last = [service |-> "none", op |-> "init", request |-> NoRequest, ret |-> NoResult]
    /\ mok = 0
    /\ pok = 0
    /\ mfailed = FALSE
    /\ pfailed = FALSE
    /\ sums = NoSums
    /\ tasks = <<>>
    /\ running = 0

CallFindPalindromePairs ==
    /\ pal.op = "idle"
    /\ pal' = [op |-> "find_palindrome_pairs", ret |-> FindPalindromePairs(words)]
    /\ UNCHANGED <<words, text, medVars, svcVars, conVars>>

CallGetPalindromeStatistics ==
    /\ pal.op = "idle"
    /\ pal' = [op |-> "get_palindrome_statistics", ret |-> GetPalindromeStatistics(words)]
    /\ UNCHANGED <<words, text, medVars, svcVars, conVars>>

CallFindLongestPalindromePair ==
    /\ pal.op = "idle"
    /\ pal' = [op |-> "find_longest_palindrome_pair",
               ret |-> FindLongestPalindromePair(words)]
    /\ UNCHANGED <<words, text, medVars, svcVars, conVars>>

----------------------------------------------------------------------------
(* The two palindrome tests on a text, one call *)

InitText ==
    /\ text \in TextArgs
    /\ words = List(<<>>)
    /\ pal = Idle
    /\ arg1 = None
    /\ arg2 = None
    /\ med = Frame(arg1, arg2)
    /\ msvc = [call_count |-> 0, total_execution_time |-> 0]
    /\ psvc = [call_count |-> 0, total_execution_time |-> 0,
               pairs_found_total |-> 0, words_processed_total |-> 0]
    /\ last = [service |-> "none", op |-> "init", request |-> NoRequest, ret |-> NoResult]
    /\ mok = 0
    /\ pok = 0
    /\ mfailed = FALSE
    /\ pfailed = FALSE
    /\ sums = NoSums
    /\ tasks = <<>>
    /\ running = 0

CallIsPalindrome ==
    /\ pal.op = "idle"
    /\ pal' = [op |-> "is_palindrome", ret |-> IsPalindrome(text)]
    /\ UNCHANGED <<words, text, medVars, svcVars, conVars>>

CallIsPalindromeOptimized ==
    /\ pal.op = "idle"
    /\ pal' = [op |-> "is_palindrome_optimized", ret |-> IsPalindromeOptimized(text)]
    /\ UNCHANGED <<words, text, medVars, svcVars, conVars>>

NextText == CallIsPalindrome \/ CallIsPalindromeOptimized

NextWords ==
    \/ CallFindPalindromePairs
    \/ CallGetPalindromeStatistics
    \/ CallFindLongestPalindromePair

SpecWords == InitWords /\ [][NextWords]_vars

SpecText == InitText /\ [][NextText]_vars

\* a call on a word list, or a call on a text
InitPalindrome ==
    \/ InitWords
    \/ InitText

----------------------------------------------------------------------------
(* app/services/median_service.py and app/services/palindrome_service.py    *)
(*                                                                          *)
(* Times are counted in thirds of a microsecond, so that a duration need    *)
(* not be a whole number of microseconds; a time rounded to 3 decimals of a *)
(* millisecond is a whole number of microseconds.                           *)

MaxCalls == 3

MaxDur == 1

\* what a call takes: no measurable time, or MaxDur
Durations == {0, MaxDur}

\* round(t, 3) of a time t
Round3(t) == (t + 1) \div 3

\* round(total / count, 3), count > 0; an exact tie goes to the even neighbour
RoundedAverage3(total, count) ==
    LET q == total \div (3 * count)
        r == total % (3 * count)
    IN IF 2 * r < 3 * count THEN q
       ELSE IF 2 * r > 3 * count THEN q + 1
       ELSE IF q % 2 = 0 THEN q ELSE q + 1

\* round(total / call_count, 2) of a count of pairs or words, in hundredths
RoundedAverage2(total, count) ==
    LET q == (100 * total) \div count
        r == (100 * total) % count
    IN IF 2 * r < count THEN q
       ELSE IF 2 * r > count THEN q + 1
       ELSE IF q % 2 = 0 THEN q ELSE q + 1

\* MedianCalculationService.__init__
NewMedianService == [call_count |-> 0, total_execution_time |-> 0]

\* lines 54-55
MedianCounted(svc, d) ==
    [call_count |-> svc.call_count + 1,
     total_execution_time |-> svc.total_execution_time + d]

\* a bug: the failed call is counted
MedianReraiseCounted(svc, engine) ==
    [svc |-> [svc EXCEPT !.call_count = svc.call_count + 1], ret |-> engine]

\* lines 71-73: the engine's ArrayOperationError is logged and raised again
MedianReraise(svc, engine) == [svc |-> svc, ret |-> engine]

\* a bug: the exception that is no ArrayOperationError is raised again as it is
MedianConvertMissing(svc, raised) == [svc |-> svc, ret |-> raised]

\* a bug: the message names whether the service has counted calls
MedianConvertCounting(svc, raised) ==
    [svc |-> svc,
     ret |-> Raised("ArrayOperationError",
                    IF svc.call_count = 0 THEN "Calculation failed"
                    ELSE "Calculation failed after calls")]

\* lines 74-76: any other exception becomes an ArrayOperationError
MedianConvert(svc, raised) ==
    [svc |-> svc, ret |-> Raised("ArrayOperationError", "Calculation failed")]

\* the request object after line 48 of calculate_median: its two lists as the
\* engine leaves them
RequestAfter(request) ==
    IF request.nums1.isNone \/ request.nums2.isNone
    THEN request
    ELSE ArgumentsAfter(request.nums1, request.nums2)

\* calculate_median on a request taking d: the service afterwards and how the call
\* ends; the sizes of lines 60-62 are read from the request after the engine call
CalculateMedian(svc, request, d) ==
    IF request.nums1.isNone \/ request.nums2.isNone
    THEN \* len(None) in the try block raises TypeError
         MedianConvert(svc, Raised("TypeError", "len"))
    ELSE LET engine == FindMedianSortedArrays(request.nums1, request.nums2)
             after == RequestAfter(request)
         IN IF engine.kind = "raise" /\ engine.error = "ArrayOperationError"
            THEN MedianReraise(svc, engine)
            ELSE IF engine.kind = "raise"
            THEN MedianConvert(svc, engine)
            ELSE [svc |-> MedianCounted(svc, d),
                  ret |-> Returned([median |-> engine.value,
                                    array1_size |-> Len(after.nums1.items),
                                    array2_size |-> Len(after.nums2.items),
                                    total_elements |-> Len(after.nums1.items)
                                                       + Len(after.nums2.items),
                                    execution_time_ms |-> Round3(d)])]

\* a bug: the average is computed whatever the count
MedianCountIgnored(count) == TRUE

\* line 87: the condition under which the quotient is evaluated
MedianCountPositive(count) == count > 0

\* get_statistics: the dict returned, or the ZeroDivisionError of a quotient by 0
MedianGetStatistics(svc) ==
    IF MedianCountPositive(svc.call_count) /\ svc.call_count = 0
    THEN Raised("ZeroDivisionError", "average")
    ELSE Returned([total_calls |-> svc.call_count,
                   total_execution_time_ms |-> Round3(svc.total_execution_time),
                   average_execution_time_ms |->
                       IF MedianCountPositive(svc.call_count)
                       THEN RoundedAverage3(svc.total_execution_time, svc.call_count)
                       ELSE 0,
                   service_status |-> "active"])

\* a bug: the query clears the cumulative time
MedianStatisticsClearTime(svc) == [svc EXCEPT !.total_execution_time = 0]

\* the service after get_statistics: lines 85-95 read the two counters and assign to
\* no attribute
MedianAfterStatistics(svc) == svc

\* a bug: the cumulative time is kept
MedianResetCallCountOnly(svc) == [svc EXCEPT !.call_count = 0]

MedianResetStatistics(svc) == [call_count |-> 0, total_execution_time |-> 0]

\* PalindromeCalculationService.__init__
NewPalindromeService ==
    [call_count |-> 0, total_execution_time |-> 0,
     pairs_found_total |-> 0, words_processed_total |-> 0]

\* a bug: one is added per call where the number of pairs found should be
PalindromeCountedOnce(svc, d, pairs, ws) ==
    [call_count |-> svc.call_count + 1,
     total_execution_time |-> svc.total_execution_time + d,
     pairs_found_total |-> svc.pairs_found_total + 1,
     words_processed_total |-> svc.words_processed_total + Len(ws)]

\* lines 72-75
PalindromeCounted(svc, d, pairs, ws) ==
    [call_count |-> svc.call_count + 1,
     total_execution_time |-> svc.total_execution_time + d,
     pairs_found_total |-> svc.pairs_found_total + Len(pairs),
     words_processed_total |-> svc.words_processed_total + Len(ws)]

\* PalindromeCalculationService.find_palindrome_pairs
ServiceFindPalindromePairs(svc, request, d) ==
    IF request.words.isNone
    THEN \* len(None) in the try block: the TypeError is converted
         [svc |-> svc, ret |-> Raised("PalindromeOperationError", "Calculation failed")]
    ELSE LET engine == FindPalindromePairs(request.words) IN
         IF engine.kind = "raise"
         THEN [svc |-> svc, ret |-> engine]
         ELSE LET stats == GetPalindromeStatistics(request.words) IN
                 [svc |-> PalindromeCounted(svc, d, engine.value, request.words.items),
                  ret |-> Returned([pairs |-> engine.value,
                                    word_count |-> Len(request.words.items),
                                    pairs_count |-> Len(engine.value),
                                    execution_time_ms |-> Round3(d),
                                    statistics |-> stats.value])]

\* PalindromeCalculationService.check_palindrome
ServiceCheckPalindrome(svc, request, d) ==
    LET engine == IsPalindromeOptimized(request.text) IN
    IF engine.kind = "raise"
    THEN [svc |-> svc, ret |-> engine]
    ELSE [svc |-> svc,
          ret |-> Returned([text |-> request.text,
                            is_palindrome |-> engine.value,
                            execution_time_ms |-> Round3(d)])]

\* PalindromeCalculationService.find_longest_palindrome_pair
ServiceFindLongestPalindromePair(svc, request, d) ==
    IF request.words.isNone
    THEN \* len(None) in the try block: the TypeError is converted
         [svc |-> svc,
          ret |-> Raised("PalindromeOperationError", "Longest pair search failed")]
    ELSE LET engine == FindLongestPalindromePair(request.words) IN
         IF engine.kind = "raise"
         THEN [svc |-> svc, ret |-> engine]
         ELSE IF engine.value = None
         THEN [svc |-> svc,
               ret |-> Returned([found |-> FALSE,
                                 message |-> "No palindrome pairs found",
                                 execution_time_ms |-> Round3(d)])]
         ELSE LET index1 == engine.value.items[1]
                  index2 == engine.value.items[2]
              IN [svc |-> svc,
                  ret |-> Returned([found |-> TRUE,
                                    indices |-> <<index1, index2>>,
                                    words |-> <<request.words.items[index1 + 1],
                                                request.words.items[index2 + 1]>>,
                                    palindrome |->
                                        PyStr(Combined(request.words.items, index1, index2)),
                                    length |-> engine.value.items[3],
                                    execution_time_ms |-> Round3(d)])]

\* lines 201, 206, 211: the condition under which each quotient is evaluated
PalindromeCountPositive(count) == count > 0

\* get_statistics: the dict returned, or the ZeroDivisionError of a quotient by 0
PalindromeGetStatistics(svc) ==
    IF PalindromeCountPositive(svc.call_count) /\ svc.call_count = 0
    THEN Raised("ZeroDivisionError", "average")
    ELSE Returned([total_calls |-> svc.call_count,
                   total_execution_time_ms |-> Round3(svc.total_execution_time),
                   average_execution_time_ms |->
                       IF PalindromeCountPositive(svc.call_count)
                       THEN RoundedAverage3(svc.total_execution_time, svc.call_count)
                       ELSE 0,
                   total_pairs_found |-> svc.pairs_found_total,
                   total_words_processed |-> svc.words_processed_total,
                   average_pairs_per_call |->
                       IF PalindromeCountPositive(svc.call_count)
                       THEN RoundedAverage2(svc.pairs_found_total, svc.call_count)
                       ELSE 0,
                   average_words_per_call |->
                       IF PalindromeCountPositive(svc.call_count)
                       THEN RoundedAverage2(svc.words_processed_total, svc.call_count)
                       ELSE 0,
                   service_status |-> "active"])

\* the service after get_statistics: lines 199-218 read the four counters and
\* assign to no attribute
PalindromeAfterStatistics(svc) == svc

PalindromeResetStatistics(svc) ==
    [call_count |-> 0, total_execution_time |-> 0,
     pairs_found_total |-> 0, words_processed_total |-> 0]

----------------------------------------------------------------------------
(* The palindrome engine, and the service's find_palindrome_pairs on a word *)
(* list, one call                                                           *)

\* await palindrome_service.find_palindrome_pairs(PalindromeRequest(words))
CallServiceFindPalindromePairs ==
    /\ pal.op = "idle"
    /\ \E d \in Durations :
          LET out == ServiceFindPalindromePairs(psvc, [words |-> words], d) IN
          /\ pal' = [op |-> "service.find_palindrome_pairs", ret |-> out.ret]
          /\ psvc' = out.svc
    /\ UNCHANGED <<words, text, medVars, msvc, last, mok, pok, mfailed, pfailed, sums,
                   conVars>>

NextPalindrome ==
    \/ NextWords
    \/ NextText
    \/ CallServiceFindPalindromePairs

SpecPalindrome == InitPalindrome /\ [][NextPalindrome]_vars

----------------------------------------------------------------------------
(* The requests the services are called with *)

MedianRequests ==
    {[nums1 |-> List(<<Num(0), Num(2)>>), nums2 |-> List(<<Num(1)>>)],
     [nums1 |-> List(<<>>), nums2 |-> List(<<Num(1)>>)],
     [nums1 |-> List(<<Num(1)>>), nums2 |-> List(<<>>)],
     [nums1 |-> List(<<>>), nums2 |-> List(<<>>)],
     [nums1 |-> List(<<Num(2), Num(0)>>), nums2 |-> List(<<Num(1)>>)],
     [nums1 |-> None, nums2 |-> List(<<Num(1)>>)],
     [nums1 |-> List(<<Num(1)>>), nums2 |-> None],
     [nums1 |-> List(<<Big>>), nums2 |-> List(<<>>)]}

PalindromeRequests ==
    [words : {None,
              List(<<>>),
              List(<<PyStr(<<"a">>), NotAStr>>),
              List(<<PyStr(<<"a">>), PyStr(<<"b">>)>>),
              List(<<PyStr(<<"a", "b">>), PyStr(<<"b", "a">>)>>),
              List(<<PyStr(<<>>), PyStr(<<>>)>>)}]

PalindromeCheckRequests ==
    [text : {NotAStr, PyStr(<<"a", "b">>), PyStr(<<"a", "b", "a">>)}]

----------------------------------------------------------------------------
(* The two palindrome tests and the service's check_palindrome on one text *)

\* check_palindrome of the palindrome service on a request carrying the text
CallCheckPalindrome ==
    /\ last.op = "init"
    /\ \E d \in Durations :
          LET request == [text |-> text]
              out == ServiceCheckPalindrome(psvc, request, d)
          IN /\ psvc' = out.svc
             /\ last' = [service |-> "palindrome", op |-> "check_palindrome",
                         request |-> request, ret |-> out.ret]
             /\ pok' = IF out.ret.kind = "return" THEN pok + 1 ELSE pok
             /\ pfailed' = (pfailed \/ out.ret.kind = "raise")
    /\ UNCHANGED <<msvc, mok, mfailed, sums, medVars, palVars, conVars>>

NextAgree == CallIsPalindrome \/ CallIsPalindromeOptimized \/ CallCheckPalindrome

SpecAgree == InitText /\ [][NextAgree]_vars

----------------------------------------------------------------------------
(* The two service instances of the process, one call at a time *)

InitServices ==
    /\ msvc = NewMedianService
    /\ psvc = NewPalindromeService
    /\ last = [service |-> "none", op |-> "init", request |-> NoRequest, ret |-> NoResult]
    /\ mok = 0
    /\ pok = 0
    /\ mfailed = FALSE
    /\ pfailed = FALSE
    /\ sums = NoSums
    /\ tasks = <<>>
    /\ running = 0
    /\ arg1 = None
    /\ arg2 = None
    /\ med = Frame(arg1, arg2)
    /\ words = List(<<>>)
    /\ text = PyStr(<<>>)
    /\ pal = Idle

Budget == mok + pok < MaxCalls

MedianCall ==
    /\ Budget
    /\ \E request \in MedianRequests : \E d \in Durations :
          LET out == CalculateMedian(msvc, request, d) IN
          /\ msvc' = out.svc
          /\ last' = [service |-> "median", op |-> "calculate_median", request |-> request,
                      ret |-> out.ret, after |-> RequestAfter(request)]
          /\ mok' = IF out.ret.kind = "return" THEN mok + 1 ELSE mok
          /\ mfailed' = (mfailed \/ out.ret.kind = "raise")
          /\ sums' = IF out.ret.kind = "return"
                     THEN [sums EXCEPT !.mtime = @ + d]
                     ELSE sums
    /\ UNCHANGED <<psvc, pok, pfailed, medVars, palVars, conVars>>

MedianStatistics ==
    /\ last' = [service |-> "median", op |-> "get_statistics", request |-> NoRequest,
                ret |-> MedianGetStatistics(msvc)]
    /\ msvc' = MedianAfterStatistics(msvc)
    /\ UNCHANGED <<psvc, mok, pok, mfailed, pfailed, sums, medVars, palVars, conVars>>

MedianReset ==
    /\ msvc' = MedianResetStatistics(msvc)
    /\ last' = [service |-> "median", op |-> "reset_statistics", request |-> NoRequest,
                ret |-> Returned(None)]
    /\ mok' = 0
    /\ mfailed' = FALSE
    /\ sums' = [sums EXCEPT !.mtime = 0]
    /\ UNCHANGED <<psvc, pok, pfailed, medVars, palVars, conVars>>

PalindromePairsCall ==
    /\ Budget
    /\ \E request \in PalindromeRequests : \E d \in Durations :
          LET out == ServiceFindPalindromePairs(psvc, request, d) IN
          /\ psvc' = out.svc
          /\ last' = [service |-> "palindrome", op |-> "find_palindrome_pairs",
                      request |-> request, ret |-> out.ret]
          /\ pok' = IF out.ret.kind = "return" THEN pok + 1 ELSE pok
          /\ pfailed' = (pfailed \/ out.ret.kind = "raise")
          /\ sums' = IF out.ret.kind = "return"
                     THEN [sums EXCEPT !.ptime = @ + d,
                                       !.pairs = @ + out.ret.value.pairs_count,
                                       !.words = @ + out.ret.value.word_count]
                     ELSE sums
    /\ UNCHANGED <<msvc, mok, mfailed, medVars, palVars, conVars>>

PalindromeCheckCall ==
    /\ Budget
    /\ \E request \in PalindromeCheckRequests : \E d \in Durations :
          LET out == ServiceCheckPalindrome(psvc, request, d) IN
          /\ psvc' = out.svc
          /\ last' = [service |-> "palindrome", op |-> "check_palindrome",
                      request |-> request, ret |-> out.ret]
          /\ pok' = IF out.ret.kind = "return" THEN pok + 1 ELSE pok
          /\ pfailed' = (pfailed \/ out.ret.kind = "raise")
    /\ UNCHANGED <<msvc, mok, mfailed, sums, medVars, palVars, conVars>>

PalindromeLongestCall ==
    /\ Budget
    /\ \E request \in PalindromeRequests : \E d \in Durations :
          LET out == ServiceFindLongestPalindromePair(psvc, request, d) IN
          /\ psvc' = out.svc
          /\ last' = [service |-> "palindrome", op |-> "find_longest_palindrome_pair",
                      request |-> request, ret |-> out.ret]
          /\ pok' = IF out.ret.kind = "return" THEN pok + 1 ELSE pok
          /\ pfailed' = (pfailed \/ out.ret.kind = "raise")
    /\ UNCHANGED <<msvc, mok, mfailed, sums, medVars, palVars, conVars>>

PalindromeStatistics ==
    /\ last' = [service |-> "palindrome", op |-> "get_statistics", request |-> NoRequest,
                ret |-> PalindromeGetStatistics(psvc)]
    /\ psvc' = PalindromeAfterStatistics(psvc)
    /\ UNCHANGED <<msvc, mok, pok, mfailed, pfailed, sums, medVars, palVars, conVars>>

PalindromeReset ==
    /\ psvc' = PalindromeResetStatistics(psvc)
    /\ last' = [service |-> "palindrome", op |-> "reset_statistics", request |-> NoRequest,
                ret |-> Returned(None)]
    /\ pok' = 0
    /\ pfailed' = FALSE
    /\ sums' = [sums EXCEPT !.ptime = 0, !.pairs = 0, !.words = 0]
    /\ UNCHANGED <<msvc, mok, mfailed, medVars, palVars, conVars>>

NextServices ==
    \/ MedianCall
    \/ MedianStatistics
    \/ MedianReset
    \/ PalindromePairsCall
    \/ PalindromeCheckCall
    \/ PalindromeLongestCall
    \/ PalindromeStatistics
    \/ PalindromeReset

SpecServices == InitServices /\ [][NextServices]_vars

----------------------------------------------------------------------------
(* app/services/dto_simple.py, app/routes/base_handler.py and               *)
(* app/routes/median_handlers_simple.py                                     *)
(*                                                                          *)
(* A request body is a record [json, has1, has2, nums1, nums2]: json is      *)
(* "object" for a JSON object and "malformed" for an empty body, invalid     *)
(* JSON or JSON that is no object; has1 and has2 say whether the keys nums1  *)
(* and nums2 are present, nums1 and nums2 are their values, None standing    *)
(* for any value that is not a list.                                         *)

\* MedianRequest._validate_numeric_list, lines 39-45: the item is refused
DtoInvalidValue(item) == item.k = "str" \/ item.k = "nan"

\* MedianRequest._validate_numeric_list raises
DtoNotNumericList(value) ==
    \/ value.isNone
    \/ \E i \in 1..Len(value.items) : DtoInvalidValue(value.items[i])

\* a bug: the order of the elements is not checked
DtoSortedUnchecked(arr) == FALSE

\* MedianRequest._validate_sorted raises
DtoNotSorted(arr) == \E i \in 2..Len(arr) : Lt(arr[i], arr[i - 1])

\* MedianRequest.from_dict: the request, or the ValidationError with its field
MedianRequestFromDict(data) ==
    IF data.json # "object" THEN Raised("ValidationError", "data")
    ELSE IF ~data.has1 THEN Raised("ValidationError", "nums1")
    ELSE IF ~data.has2 THEN Raised("ValidationError", "nums2")
    ELSE IF DtoNotNumericList(data.nums1) THEN Raised("ValidationError", "nums1")
    ELSE IF DtoNotNumericList(data.nums2) THEN Raised("ValidationError", "nums2")
    ELSE IF DtoNotSorted(data.nums1.items) THEN Raised("ValidationError", "nums1")
    ELSE IF DtoNotSorted(data.nums2.items) THEN Raised("ValidationError", "nums2")
    ELSE Returned([nums1 |-> data.nums1, nums2 |-> data.nums2])

\* BaseHandler.get_json_body: the parsed object, or HTTPError(400)
GetJsonBody(body) ==
    IF body.json = "malformed"
    THEN Raised("HTTPError", "400")
    ELSE Returned(body)

\* BaseHandler.write_error_json
ErrorJson(error_code, status_code) == [status |-> status_code, error_code |-> error_code]

\* BaseHandler.write_error, for the statuses the handlers raise HTTPError with
WriteError(status_code) ==
    ErrorJson(CASE status_code = 400 -> "BAD_REQUEST"
                [] status_code = 404 -> "NOT_FOUND"
                [] status_code = 422 -> "VALIDATION_ERROR"
                [] status_code = 500 -> "INTERNAL_ERROR"
                [] OTHER -> "UNKNOWN_ERROR",
              status_code)

\* BaseHandler.write_json of a result
Json(data, status_code) == [status |-> status_code, error_code |-> "none", data |-> data]

\* MedianHandler.post on a body, the service call taking d: the service afterwards,
\* the response written and the service operations awaited
MedianHandlerPost(svc, body, d) ==
    IF GetJsonBody(body).kind = "raise"
    THEN [svc |-> svc, response |-> WriteError(400), invoked |-> <<>>]
    ELSE LET request == MedianRequestFromDict(GetJsonBody(body).value) IN
         IF request.kind = "raise"
         THEN [svc |-> svc, response |-> ErrorJson("VALIDATION_ERROR", 422),
               invoked |-> <<>>]
         ELSE LET out == CalculateMedian(svc, request.value, d) IN
              [svc |-> out.svc,
               response |->
                   IF out.ret.kind = "return"
                   THEN Json(out.ret.value, 200)
                   ELSE IF out.ret.error = "ArrayOperationError"
                   THEN ErrorJson("ARRAY_OPERATION_ERROR", 400)
                   ELSE ErrorJson("INTERNAL_ERROR", 500),
               invoked |-> <<"calculate_median">>]

\* MedianStatsHandler.get
MedianStatsHandlerGet(svc) ==
    IF MedianGetStatistics(svc).kind = "raise"
    THEN ErrorJson("STATS_ERROR", 500)
    ELSE Json(MedianGetStatistics(svc).value, 200)

----------------------------------------------------------------------------
(* The bodies POST /api/v1/median is called with *)

Object(has1, has2, nums1, nums2) ==
    [json |-> "object", has1 |-> has1, has2 |-> has2, nums1 |-> nums1, nums2 |-> nums2]

MedianBodies ==
    {[json |-> "malformed", has1 |-> FALSE, has2 |-> FALSE, nums1 |-> None, nums2 |-> None],
     Object(FALSE, TRUE, None, List(<<Num(1)>>)),
     Object(TRUE, FALSE, List(<<Num(1)>>), None),
     Object(TRUE, TRUE, None, List(<<Num(1)>>)),
     Object(TRUE, TRUE, List(<<Num(1)>>), List(<<Str>>)),
     Object(TRUE, TRUE, List(<<NaN>>), List(<<Num(1)>>)),
     Object(TRUE, TRUE, List(<<Num(2), Num(0)>>), List(<<Num(1)>>)),
     Object(TRUE, TRUE, List(<<>>), List(<<Num(1), Num(0)>>)),
     Object(TRUE, TRUE, List(<<Num(0), Num(2)>>), List(<<Num(1)>>)),
     Object(TRUE, TRUE, List(<<>>), List(<<Num(1), Num(2)>>)),
     Object(TRUE, TRUE, List(<<>>), List(<<>>)),
     Object(TRUE, TRUE, List(<<Big>>), List(<<>>)),
     Object(TRUE, TRUE, List(<<Num(0)>>), List(<<Num(1), Big>>))}

----------------------------------------------------------------------------
(* The median endpoints of the process, one request at a time *)

InitApi == InitServices

PostMedian ==
    /\ Budget
    /\ \E body \in MedianBodies : \E d \in Durations :
          LET out == MedianHandlerPost(msvc, body, d) IN
          /\ msvc' = out.svc
          /\ last' = [service |-> "median", op |-> "POST /api/v1/median",
                      request |-> body, ret |-> Returned(out.response),
                      invoked |-> out.invoked]
          /\ mok' = IF out.response.status = 200 THEN mok + 1 ELSE mok
          /\ mfailed' = (mfailed \/ (out.invoked # <<>> /\ out.response.status # 200))
          /\ sums' = IF out.response.status = 200
                     THEN [sums EXCEPT !.mtime = @ + d]
                     ELSE sums
    /\ UNCHANGED <<psvc, pok, pfailed, medVars, palVars, conVars>>

GetMedianStats ==
    /\ last' = [service |-> "median", op |-> "GET /api/v1/median/stats",
                request |-> NoRequest, ret |-> Returned(MedianStatsHandlerGet(msvc)),
                invoked |-> <<"get_statistics">>]
    /\ UNCHANGED <<msvc, psvc, mok, pok, mfailed, pfailed, sums, medVars, palVars, conVars>>

\* MedianStatsHandler.delete
DeleteMedianStats ==
    /\ msvc' = MedianResetStatistics(msvc)
    /\ last' = [service |-> "median", op |-> "DELETE /api/v1/median/stats",
                request |-> NoRequest,
                ret |-> Returned(Json("Statistics reset successfully", 200)),
                invoked |-> <<"reset_statistics">>]
    /\ mok' = 0
    /\ mfailed' = FALSE
    /\ sums' = [sums EXCEPT !.mtime = 0]
    /\ UNCHANGED <<psvc, pok, pfailed, medVars, palVars, conVars>>

NextApi ==
    \/ PostMedian
    \/ GetMedianStats
    \/ DeleteMedianStats

SpecApi == InitApi /\ [][NextApi]_vars

----------------------------------------------------------------------------
(* MedianBatchHandler of app/routes/median_handlers_simple.py and           *)
(* PalindromeBatchHandler of app/routes/palindrome_handlers.py              *)
(*                                                                          *)
(* The body of a batch request is a record [json, isList, items]: isList     *)
(* says whether the key (calculations, operations) is present with a list   *)
(* as its value, items is that list.  An item is any JSON value: json is     *)
(* "object" for an object and "other" for a number, a string, null or a     *)
(* list.  An operation of the palindrome batch is a record [json, type,      *)
(* hasWords, words, hasText, text]: type is "pairs", "check", "longest", or *)
(* "other" for any other value and for a missing key.                        *)
(*                                                                          *)
(* The coroutine of a batch handler is a record [op, body, d, i, loop]: i is *)
(* the index of the item its loop handles next, loop the locals of the loop *)
(* [svc, results, successful, failed, raised, invoked], where raised names   *)
(* the exception that left the loop and invoked the service operations       *)
(* awaited so far.  One pass of the loop is one step.                        *)

\* line 185 of median_handlers_simple.py
MedianBatchLimit == 100

\* line 345 of palindrome_handlers.py
PalindromeBatchLimit == 50

\* a bug: a batch of exactly the limit is refused
MedianBatchTooLargeFromLimit(calculations) == Len(calculations) >= MedianBatchLimit

\* line 185: len(calculations) > 100
MedianBatchTooLarge(calculations) == Len(calculations) > MedianBatchLimit

\* line 345: len(operations) > 50
PalindromeBatchTooLarge(operations) == Len(operations) > PalindromeBatchLimit

\* PalindromeRequest._validate_word_list raises
DtoNotWordList(value) ==
    \/ value.isNone
    \/ \E i \in 1..Len(value.items) : ~value.items[i].isStr

\* PalindromeRequest.from_dict on a dict: the request, or the ValidationError
PalindromeRequestFromDict(data) ==
    IF ~data.hasWords THEN Raised("ValidationError", "words")
    ELSE IF DtoNotWordList(data.words) THEN Raised("ValidationError", "words")
    ELSE Returned([words |-> data.words])

\* PalindromeCheckRequest.from_dict on a dict: the request, or the ValidationError
PalindromeCheckRequestFromDict(data) ==
    IF ~data.hasText THEN Raised("ValidationError", "text")
    ELSE IF ~data.text.isStr THEN Raised("ValidationError", "text")
    ELSE Returned([text |-> data.text])

\* lines 193-195 (353-355): the locals of the loop before its first pass
BatchStart ==
    [results |-> <<>>, successful |-> 0, failed |-> 0, raised |-> "none",
     invoked |-> <<>>]

\* what the handler does with the body before its loop: the error response it
\* writes, or NoResult when it enters the loop
BatchRefusal(body, tooLarge) ==
    IF GetJsonBody(body).kind = "raise" THEN Returned(WriteError(400))
    ELSE IF ~body.isList THEN Returned(ErrorJson("VALIDATION_ERROR", 422))
    ELSE IF tooLarge THEN Returned(ErrorJson("BATCH_SIZE_ERROR", 422))
    ELSE NoResult

\* lines 172-191 of MedianBatchHandler.post
MedianBatchRefusal(body) == BatchRefusal(body, MedianBatchTooLarge(body.items))

\* lines 332-351 of PalindromeBatchHandler.post
PalindromeBatchRefusal(body) == BatchRefusal(body, PalindromeBatchTooLarge(body.items))

\* lines 222-229 (399-406): the response after the loop
BatchResponse(loop, items) ==
    Json([results |-> loop.results,
          total |-> Len(items),
          successful |-> loop.successful,
          failed |-> loop.failed], 200)

\* lines 233-239 (410-416): the response when an exception left the loop
BatchError == ErrorJson("BATCH_ERROR", 500)

\* lines 211-218 and line 220: the item failed, its error entry is appended
MedianItemFailed(loop, i, error_type) ==
    [loop EXCEPT !.results = Append(@, [index |-> i, status |-> "error",
                                        error_type |-> error_type]),
                 !.failed = @ + 1]

\* lines 198-220 of MedianBatchHandler.post: the pass of the loop for the
\* calculation calc of index i (0-based), the service call taking d; the service
\* and the loop's locals afterwards
MedianBatchPass(svc, loop, i, calc, d) ==
    LET request == MedianRequestFromDict(calc) IN
    IF request.kind = "raise"
    THEN [svc |-> svc, loop |-> MedianItemFailed(loop, i, "ValidationError")]
    ELSE LET out == CalculateMedian(svc, request.value, d)
             called == [loop EXCEPT !.invoked = Append(@, "calculate_median")]
         IN [svc |-> out.svc,
             loop |->
                 IF out.ret.kind = "return"
                 THEN [called EXCEPT
                          !.results = Append(@, [index |-> i, status |-> "success",
                                                 result |-> out.ret.value]),
                          !.successful = @ + 1]
                 ELSE IF out.ret.error = "ArrayOperationError"
                 THEN MedianItemFailed(called, i, "ArrayOperationError")
                 ELSE [called EXCEPT !.raised = out.ret.error]]

\* the item's entry, with the error the inner except clause caught (lines 389-395)
\* or found for an unknown type (lines 377-385)
PalindromeItemFailed(loop, i, type, error_type) ==
    [loop EXCEPT !.results = Append(@, [index |-> i, type |-> type, status |-> "error",
                                        error_type |-> error_type]),
                 !.failed = @ + 1]

\* lines 365, 370, 375 and 387: the item's entry with the service's response
PalindromeItemDone(loop, i, type, out, invoked) ==
    LET called == [loop EXCEPT !.invoked = Append(@, invoked)] IN
    [svc |-> out.svc,
     loop |->
         IF out.ret.kind = "return"
         THEN [called EXCEPT !.results = Append(@, [index |-> i, type |-> type,
                                                    status |-> "success",
                                                    result |-> out.ret.value]),
                             !.successful = @ + 1]
         ELSE IF out.ret.error = "PalindromeOperationError"
         THEN PalindromeItemFailed(called, i, type, "PalindromeOperationError")
         ELSE [called EXCEPT !.raised = out.ret.error]]

\* {"words": operation.get("words", [])}
WordsOf(operation) ==
    [hasWords |-> TRUE,
     words |-> IF operation.hasWords THEN operation.words ELSE List(<<>>)]

\* {"text": operation.get("text", "")}
TextOf(operation) ==
    [hasText |-> TRUE,
     text |-> IF operation.hasText THEN operation.text ELSE PyStr(<<>>)]

\* lines 358-397 of PalindromeBatchHandler.post: the pass of the loop for the
\* operation of index i (0-based), the service call taking d; the service and the
\* loop's locals afterwards
PalindromeBatchPass(svc, loop, i, operation, d) ==
    IF operation.json # "object"
    THEN \* line 359: operation.get of a value that is no dict raises AttributeError,
         \* which the inner except clause does not catch
         [svc |-> svc, loop |-> [loop EXCEPT !.raised = "AttributeError"]]
    ELSE IF operation.type \in {"pairs", "longest"}
    THEN LET request == PalindromeRequestFromDict(WordsOf(operation)) IN
         IF request.kind = "raise"
         THEN [svc |-> svc,
               loop |-> PalindromeItemFailed(loop, i, operation.type, "ValidationError")]
         ELSE IF operation.type = "pairs"
         THEN PalindromeItemDone(loop, i, operation.type,
                                 ServiceFindPalindromePairs(svc, request.value, d),
                                 "find_palindrome_pairs")
         ELSE PalindromeItemDone(loop, i, operation.type,
                                 ServiceFindLongestPalindromePair(svc, request.value, d),
                                 "find_longest_palindrome_pair")
    ELSE IF operation.type = "check"
    THEN LET request == PalindromeCheckRequestFromDict(TextOf(operation)) IN
         IF request.kind = "raise"
         THEN [svc |-> svc,
               loop |-> PalindromeItemFailed(loop, i, operation.type, "ValidationError")]
         ELSE PalindromeItemDone(loop, i, operation.type,
                                 ServiceCheckPalindrome(svc, request.value, d),
                                 "check_palindrome")
    ELSE [svc |-> svc,
          loop |-> PalindromeItemFailed(loop, i, operation.type, "ValidationError")]

----------------------------------------------------------------------------
(* The bodies the batch endpoints are called with *)

MaxBatch == 2

\* a JSON value that is no object
NoObject == [json |-> "other"]

Operation(type, hasWords, w, hasText, t) ==
    [json |-> "object", type |-> type, hasWords |-> hasWords, words |-> w,
     hasText |-> hasText, text |-> t]

MedianItems ==
    {NoObject,
     Object(TRUE, TRUE, List(<<Num(2), Num(0)>>), List(<<Num(1)>>)),
     Object(TRUE, TRUE, List(<<Num(0), Num(2)>>), List(<<Num(1)>>)),
     Object(TRUE, TRUE, List(<<>>), List(<<>>)),
     Object(TRUE, TRUE, List(<<Big>>), List(<<>>))}

PalindromeOperations ==
    {NoObject,
     Operation("pairs", TRUE, List(<<PyStr(<<"a", "b">>), PyStr(<<"b", "a">>)>>),
               FALSE, NotAStr),
     Operation("pairs", TRUE, List(<<PyStr(<<"a">>), NotAStr>>), FALSE, NotAStr),
     Operation("check", FALSE, None, TRUE, PyStr(<<"a", "b", "a">>)),
     Operation("longest", TRUE, List(<<PyStr(<<"a", "b">>), PyStr(<<"b", "a">>)>>),
               FALSE, NotAStr),
     Operation("other", TRUE, List(<<PyStr(<<"a">>)>>), FALSE, NotAStr)}

\* n times the same item
Repeat(item, n) == [k \in 1..n |-> item]

Batch(items) == [json |-> "object", isList |-> TRUE, items |-> items]

\* an empty or malformed body, and an object without the list
NoBatches ==
    {[json |-> "malformed", isList |-> FALSE, items |-> <<>>],
     [json |-> "object", isList |-> FALSE, items |-> <<>>]}

\* the short batches, and batches of exactly the limit and of one more
MedianBatches ==
    NoBatches
    \cup {Batch(items) : items \in SeqsUpTo(MedianItems, MaxBatch)}
    \cup {Batch(Repeat(Object(TRUE, TRUE, List(<<Num(0), Num(2)>>), List(<<Num(1)>>)), n)) :
             n \in {MedianBatchLimit, MedianBatchLimit + 1}}

PalindromeBatches ==
    NoBatches
    \cup {Batch(items) : items \in SeqsUpTo(PalindromeOperations, MaxBatch)}
    \cup {Batch(Repeat(Operation("pairs", TRUE,
                                 List(<<PyStr(<<"a", "b">>), PyStr(<<"b", "a">>)>>),
                                 FALSE, NotAStr), n)) :
             n \in {PalindromeBatchLimit, PalindromeBatchLimit + 1}}

----------------------------------------------------------------------------
(* The batch endpoints of the process, one request at a time, each service *)
(* call taking MaxDur                                                      *)

InitBatch == InitServices

\* the handler's coroutine at the start of its loop
BatchTask(op, body, d) == [op |-> op, body |-> body, d |-> d, i |-> 0, loop |-> BatchStart]

\* the loop of the running handler goes on
InLoop(op) ==
    /\ running = 1
    /\ tasks[1].op = op
    /\ tasks[1].i < Len(tasks[1].body.items)
    /\ tasks[1].loop.raised = "none"

\* the loop of the running handler has ended, or an exception has left it
LoopLeft(op) ==
    /\ running = 1
    /\ tasks[1].op = op
    /\ \/ tasks[1].i >= Len(tasks[1].body.items)
       \/ tasks[1].loop.raised # "none"

\* what the handler writes once its loop is left
ResponseOf(task) ==
    IF task.loop.raised # "none"
    THEN BatchError
    ELSE BatchResponse(task.loop, task.body.items)

\* POST /api/v1/median/batch arrives: the handler refuses the body, or enters its loop
PostMedianBatch ==
    /\ running = 0
    /\ Budget
    /\ \E body \in MedianBatches : \E d \in {MaxDur} :
          IF MedianBatchRefusal(body) # NoResult
          THEN /\ last' = [service |-> "median", op |-> "POST /api/v1/median/batch",
                           request |-> body, ret |-> MedianBatchRefusal(body),
                           invoked |-> <<>>]
               /\ UNCHANGED conVars
          ELSE /\ tasks' = <<BatchTask("POST /api/v1/median/batch", body, d)>>
               /\ running' = 1
               /\ last' = [service |-> "median", op |-> "POST /api/v1/median/batch",
                           request |-> body, ret |-> NoResult, invoked |-> <<>>]
    /\ UNCHANGED <<msvc, psvc, mok, pok, mfailed, pfailed, sums, medVars, palVars>>

\* one pass of the loop of MedianBatchHandler.post
MedianBatchItem ==
    /\ InLoop("POST /api/v1/median/batch")
    /\ LET task == tasks[1]
           pass == MedianBatchPass(msvc, task.loop, task.i, task.body.items[task.i + 1],
                                   task.d)
           counted == pass.loop.successful - task.loop.successful
       IN /\ msvc' = pass.svc
          /\ tasks' = <<[task EXCEPT !.i = @ + 1, !.loop = pass.loop]>>
          /\ mok' = mok + counted
          /\ mfailed' = (mfailed \/ pass.loop.failed > task.loop.failed)
          /\ sums' = [sums EXCEPT !.mtime = @ + counted * task.d]
    /\ UNCHANGED <<running, psvc, last, pok, pfailed, medVars, palVars>>

\* MedianBatchHandler.post writes its response
MedianBatchEnd ==
    /\ LoopLeft("POST /api/v1/median/batch")
    /\ last' = [service |-> "median", op |-> tasks[1].op, request |-> tasks[1].body,
                ret |-> Returned(ResponseOf(tasks[1])),
                invoked |-> tasks[1].loop.invoked]
    /\ tasks' = <<>>
    /\ running' = 0
    /\ UNCHANGED <<msvc, psvc, mok, pok, mfailed, pfailed, sums, medVars, palVars>>

\* POST /api/v1/palindrome/batch arrives: the handler refuses the body, or enters its
\* loop
PostPalindromeBatch ==
    /\ running = 0
    /\ Budget
    /\ \E body \in PalindromeBatches : \E d \in {MaxDur} :
          IF PalindromeBatchRefusal(body) # NoResult
          THEN /\ last' = [service |-> "palindrome",
                           op |-> "POST /api/v1/palindrome/batch",
                           request |-> body, ret |-> PalindromeBatchRefusal(body),
                           invoked |-> <<>>]
               /\ UNCHANGED conVars
          ELSE /\ tasks' = <<BatchTask("POST /api/v1/palindrome/batch", body, d)>>
               /\ running' = 1
               /\ last' = [service |-> "palindrome", op |-> "POST /api/v1/palindrome/batch",
                           request |-> body, ret |-> NoResult, invoked |-> <<>>]
    /\ UNCHANGED <<msvc, psvc, mok, pok, mfailed, pfailed, sums, medVars, palVars>>

\* one pass of the loop of PalindromeBatchHandler.post
PalindromeBatchItem ==
    /\ InLoop("POST /api/v1/palindrome/batch")
    /\ LET task == tasks[1]
           pass == PalindromeBatchPass(psvc, task.loop, task.i,
                                       task.body.items[task.i + 1], task.d)
           counted == pass.loop.successful - task.loop.successful
           entry == pass.loop.results[Len(pass.loop.results)]
           pairs == counted = 1 /\ entry.type = "pairs"
       IN /\ psvc' = pass.svc
          /\ tasks' = <<[task EXCEPT !.i = @ + 1, !.loop = pass.loop]>>
          /\ pok' = pok + counted
          /\ pfailed' = (pfailed \/ pass.loop.failed > task.loop.failed)
          /\ sums' = IF pairs
                     THEN [sums EXCEPT !.ptime = @ + task.d,
                                       !.pairs = @ + entry.result.pairs_count,
                                       !.words = @ + entry.result.word_count]
                     ELSE sums
    /\ UNCHANGED <<running, msvc, last, mok, mfailed, medVars, palVars>>

\* PalindromeBatchHandler.post writes its response
PalindromeBatchEnd ==
    /\ LoopLeft("POST /api/v1/palindrome/batch")
    /\ last' = [service |-> "palindrome", op |-> tasks[1].op, request |-> tasks[1].body,
                ret |-> Returned(ResponseOf(tasks[1])),
                invoked |-> tasks[1].loop.invoked]
    /\ tasks' = <<>>
    /\ running' = 0
    /\ UNCHANGED <<msvc, psvc, mok, pok, mfailed, pfailed, sums, medVars, palVars>>

NextBatch ==
    \/ PostMedianBatch
    \/ MedianBatchItem
    \/ MedianBatchEnd
    \/ PostPalindromeBatch
    \/ PalindromeBatchItem
    \/ PalindromeBatchEnd

SpecBatch == InitBatch /\ [][NextBatch]_vars

----------------------------------------------------------------------------
(* The service instances under concurrent requests.                         *)
(*                                                                          *)
(* main.py runs one tornado IOLoop and no thread: each request is a          *)
(* coroutine on that loop, and the loop runs one coroutine at a time until   *)
(* it suspends or ends.  A task is a dispatched call of a service method,    *)
(* a record [op, pc, d, add, tmp, avg, snap, want]: its steps are the        *)
(* statements of the method that touch the counters, an augmented            *)
(* assignment x += e taken as a load of x followed by a store, and pc is    *)
(* the step it executes next.  add is what the call contributes to each      *)
(* counter, tmp the value a load fetched, avg and snap what get_statistics   *)
(* has read; want is what the snapshot would be were it taken in one step.  *)
(* The variables mok, pok and sums follow the counters as they would be     *)
(* were each call's update, and each reset, one atomic step.                *)

MaxTasks == 3

Stmt(do, field) == [do |-> do, field |-> field]

\* the steps of each service method, in program order
Steps(op) ==
    CASE op = "calculate_median" ->
             <<Stmt("engine", "none"),
               Stmt("load", "call_count"), Stmt("store", "call_count"),
               Stmt("load", "total_execution_time"),
               Stmt("store", "total_execution_time")>>
      [] op = "find_palindrome_pairs" ->
             <<Stmt("engine", "none"),
               Stmt("load", "call_count"), Stmt("store", "call_count"),
               Stmt("load", "total_execution_time"),
               Stmt("store", "total_execution_time"),
               Stmt("load", "pairs_found_total"), Stmt("store", "pairs_found_total"),
               Stmt("load", "words_processed_total"),
               Stmt("store", "words_processed_total")>>
      [] op = "median.reset_statistics" ->
             <<Stmt("zero", "call_count"), Stmt("zero", "total_execution_time")>>
      [] op = "palindrome.reset_statistics" ->
             <<Stmt("zero", "call_count"), Stmt("zero", "total_execution_time"),
               Stmt("zero", "pairs_found_total"), Stmt("zero", "words_processed_total")>>
      [] OTHER ->
             <<Stmt("averages", "none"), Stmt("totals", "none")>>

ServiceOf(op) ==
    IF op \in {"calculate_median", "median.reset_statistics", "median.get_statistics"}
    THEN "median"
    ELSE "palindrome"

ServiceOps(service) ==
    IF service = "median"
    THEN {"calculate_median", "median.reset_statistics", "median.get_statistics"}
    ELSE {"find_palindrome_pairs", "palindrome.reset_statistics",
          "palindrome.get_statistics"}

Done(task) == task.pc > Len(Steps(task.op))

\* a bug: the coroutine of a call gives the loop up after each of its steps
CallSuspendsAfterEachStep(task) == TRUE

\* calculate_median and find_palindrome_pairs hold no await: once resumed, the
\* coroutine runs to its end
CallSuspends(task) == Done(task)

\* a bug: reset_statistics and get_statistics can be preempted between statements
SyncSuspendsAfterEachStep(task) == TRUE

\* reset_statistics and get_statistics are plain functions, called without await
SyncSuspends(task) == Done(task)

\* whether the loop is free for another task once this one has made its step
Suspends(task) ==
    IF task.op \in {"calculate_median", "find_palindrome_pairs"}
    THEN CallSuspends(task)
    ELSE SyncSuspends(task)

\* the requests of the concurrent calls: both succeed
ConcurrentMedianRequest == [nums1 |-> List(<<Num(0), Num(2)>>), nums2 |-> List(<<Num(1)>>)]

ConcurrentPalindromeRequest ==
    [words |-> List(<<PyStr(<<"a", "b">>), PyStr(<<"b", "a">>), PyStr(<<"a">>)>>)]

\* what a call taking d adds to each counter of its service
Contribution(op, d) ==
    IF op = "calculate_median"
    THEN CalculateMedian(NewMedianService, ConcurrentMedianRequest, d).svc
    ELSE IF op = "find_palindrome_pairs"
    THEN ServiceFindPalindromePairs(NewPalindromeService, ConcurrentPalindromeRequest, d).svc
    ELSE NewPalindromeService

\* the t-th task dispatched, a call taking t
NewTask(op, t) ==
    [op |-> op, pc |-> 1, d |-> t, add |-> NewPalindromeService, tmp |-> 0,
     avg |-> NoResult, snap |-> NoResult, want |-> NoResult]

Counters(service) == IF service = "median" THEN msvc ELSE psvc

\* the counters as they would be were every update and every reset atomic
Expected(service) ==
    IF service = "median"
    THEN [call_count |-> mok, total_execution_time |-> sums.mtime]
    ELSE [call_count |-> pok, total_execution_time |-> sums.ptime,
          pairs_found_total |-> sums.pairs, words_processed_total |-> sums.words]

GetStatistics(service, counters) ==
    IF service = "median"
    THEN MedianGetStatistics(counters)
    ELSE PalindromeGetStatistics(counters)

\* the dict get_statistics returns: the averages it computed first, the totals as
\* they are when the dict is built
Snapshot(service, avg, counters) ==
    IF service = "median"
    THEN [GetStatistics(service, counters).value EXCEPT
              !.average_execution_time_ms = avg.average_execution_time_ms]
    ELSE [GetStatistics(service, counters).value EXCEPT
              !.average_execution_time_ms = avg.average_execution_time_ms,
              !.average_pairs_per_call = avg.average_pairs_per_call,
              !.average_words_per_call = avg.average_words_per_call]

InitConcurrent ==
    /\ \E service \in {"median", "palindrome"} : \E n \in 1..MaxTasks :
          \E ops \in [1..n -> ServiceOps(service)] :
              tasks = [t \in 1..n |-> NewTask(ops[t], t)]
    /\ running = 0
    /\ msvc = NewMedianService
    /\ psvc = NewPalindromeService
    /\ last = [service |-> "none", op |-> "init", request |-> NoRequest, ret |-> NoResult]
    /\ mok = 0
    /\ pok = 0
    /\ mfailed = FALSE
    /\ pfailed = FALSE
    /\ sums = NoSums
    /\ arg1 = None
    /\ arg2 = None
    /\ med = Frame(arg1, arg2)
    /\ words = List(<<>>)
    /\ text = PyStr(<<>>)
    /\ pal = Idle

\* the loop runs task t, or is idle and resumes it
CanRun(t, do) ==
    /\ running \in {0, t}
    /\ ~Done(tasks[t])
    /\ Steps(tasks[t].op)[tasks[t].pc].do = do

\* task t has made its step and become task
Advance(t, task) ==
    LET next == [task EXCEPT !.pc = @ + 1] IN
    /\ tasks' = [tasks EXCEPT ![t] = next]
    /\ running' = IF Suspends(next) THEN 0 ELSE t

\* the engine call and the measure of its time
RunEngine ==
    \E t \in DOMAIN tasks :
        /\ CanRun(t, "engine")
        /\ Advance(t, [tasks[t] EXCEPT !.add = Contribution(tasks[t].op, tasks[t].d)])
        /\ UNCHANGED <<svcVars, medVars, palVars>>

\* the first half of self._x += e
LoadCounter ==
    \E t \in DOMAIN tasks :
        /\ CanRun(t, "load")
        /\ LET field == Steps(tasks[t].op)[tasks[t].pc].field IN
           Advance(t, [tasks[t] EXCEPT !.tmp = Counters(ServiceOf(tasks[t].op))[field]])
        /\ UNCHANGED <<svcVars, medVars, palVars>>

\* the second half of self._x += e; the call counts from its first store on
StoreCounter ==
    \E t \in DOMAIN tasks :
        /\ CanRun(t, "store")
        /\ LET task == tasks[t]
               field == Steps(task.op)[task.pc].field
               first == field = "call_count"
           IN /\ Advance(t, task)
              /\ IF ServiceOf(task.op) = "median"
                 THEN /\ msvc' = [msvc EXCEPT ![field] = task.tmp + task.add[field]]
                      /\ mok' = IF first THEN mok + task.add.call_count ELSE mok
                      /\ sums' = IF first
                                 THEN [sums EXCEPT !.mtime = @ + task.add.total_execution_time]
                                 ELSE sums
                      /\ UNCHANGED <<psvc, pok>>
                 ELSE /\ psvc' = [psvc EXCEPT ![field] = task.tmp + task.add[field]]
                      /\ pok' = IF first THEN pok + task.add.call_count ELSE pok
                      /\ sums' = IF first
                                 THEN [sums EXCEPT
                                          !.ptime = @ + task.add.total_execution_time,
                                          !.pairs = @ + task.add.pairs_found_total,
                                          !.words = @ + task.add.words_processed_total]
                                 ELSE sums
                      /\ UNCHANGED <<msvc, mok>>
        /\ UNCHANGED <<last, mfailed, pfailed, medVars, palVars>>

\* one assignment of reset_statistics; the reset counts from its first assignment on
ZeroCounter ==
    \E t \in DOMAIN tasks :
        /\ CanRun(t, "zero")
        /\ LET task == tasks[t]
               field == Steps(task.op)[task.pc].field
               first == field = "call_count"
           IN /\ Advance(t, task)
              /\ IF ServiceOf(task.op) = "median"
                 THEN /\ msvc' = [msvc EXCEPT ![field] = 0]
                      /\ mok' = IF first THEN 0 ELSE mok
                      /\ sums' = IF first THEN [sums EXCEPT !.mtime = 0] ELSE sums
                      /\ UNCHANGED <<psvc, pok>>
                 ELSE /\ psvc' = [psvc EXCEPT ![field] = 0]
                      /\ pok' = IF first THEN 0 ELSE pok
                      /\ sums' = IF first
                                 THEN [sums EXCEPT !.ptime = 0, !.pairs = 0, !.words = 0]
                                 ELSE sums
                      /\ UNCHANGED <<msvc, mok>>
        /\ UNCHANGED <<last, mfailed, pfailed, medVars, palVars>>

\* get_statistics computes its averages
ReadAverages ==
    \E t \in DOMAIN tasks :
        /\ CanRun(t, "averages")
        /\ LET service == ServiceOf(tasks[t].op) IN
           Advance(t, [tasks[t] EXCEPT
                          !.avg = GetStatistics(service, Counters(service)).value])
        /\ UNCHANGED <<svcVars, medVars, palVars>>

\* get_statistics builds the dict it returns
ReadTotals ==
    \E t \in DOMAIN tasks :
        /\ CanRun(t, "totals")
        /\ LET service == ServiceOf(tasks[t].op) IN
           Advance(t, [tasks[t] EXCEPT
                          !.snap = Snapshot(service, tasks[t].avg, Counters(service)),
                          !.want = GetStatistics(service, Expected(service)).value])
        /\ UNCHANGED <<svcVars, medVars, palVars>>

NextConcurrent ==
    \/ RunEngine
    \/ LoadCounter
    \/ StoreCounter
    \/ ZeroCounter
    \/ ReadAverages
    \/ ReadTotals

SpecConcurrent == InitConcurrent /\ [][NextConcurrent]_vars

----------------------------------------------------------------------------
(* Claims about the median engine, checked under SpecMedian *)

\* a non-descending list of finite numbers
ValidList(a) ==
    /\ ~a.isNone
    /\ \A i \in 1..Len(a.items) : a.items[i].k = "num"
    /\ \A i \in 1..(Len(a.items) - 1) : a.items[i].v <= a.items[i + 1].v

ValidMedianInput ==
    /\ ValidList(arg1)
    /\ ValidList(arg2)
    /\ Len(arg1.items) + Len(arg2.items) > 0

\* the median of the merged sequence, in halves
MedianOfMerged ==
    LET s == MergeSortedArrays(arg1, arg2).value
        n == Len(s)
    IN IF n % 2 = 1
       THEN Num(2 * s[(n + 1) \div 2].v)
       ELSE Num(s[n \div 2].v + s[(n \div 2) + 1].v)

InvalidMedianInput ==
    \/ arg1.isNone
    \/ arg2.isNone
    \/ \E a \in {arg1, arg2} : \E i \in 1..Len(a.items) : a.items[i].k \in {"str", "nan"}
    \/ \E a \in {arg1, arg2} : \E i \in 2..Len(a.items) :
           /\ a.items[i].k = "num"
           /\ a.items[i - 1].k = "num"
           /\ a.items[i].v < a.items[i - 1].v
    \/ Len(arg1.items) = 0 /\ Len(arg2.items) = 0

----------------------------------------------------------------------------
(* Claims about the palindrome engine, checked under SpecWords and SpecText *)

\* a list whose elements are all strings
ValidWords == ~words.isNone /\ \A i \in 1..Len(words.items) : words.items[i].isStr

\* s reads the same forward and backward
ReadsSame(s) == \A k \in 1..Len(s) : s[k] = s[Len(s) + 1 - k]

\* words[i] + words[j], i and j 0-based
Concatenation(i, j) == words.items[i + 1].chars \o words.items[j + 1].chars

\* pair p comes before pair q in the double loop: i ascending, then j ascending
Before(p, q) == p[1] < q[1] \/ (p[1] = q[1] /\ p[2] < q[2])

\* C4: find_palindrome_pairs returns exactly the pairs (i, j), 0 <= i, j < len(words),
\* i # j, whose concatenation is a palindrome, each once, in double-loop order;
\* fewer than 2 words give the empty result.
C4_PairsExactInOrder ==
    (pal.op = "find_palindrome_pairs" /\ ValidWords) =>
        /\ pal.ret.kind = "return"
        /\ LET found == pal.ret.value
               n == Len(words.items)
           IN /\ \A k \in 1..Len(found) :
                     /\ found[k][1] \in 0..(n - 1)
                     /\ found[k][2] \in 0..(n - 1)
              /\ \A i \in 0..(n - 1) : \A j \in 0..(n - 1) :
                     (\E k \in 1..Len(found) : found[k] = <<i, j>>)
                         <=> (i # j /\ ReadsSame(Concatenation(i, j)))
              /\ \A k \in 1..(Len(found) - 1) : Before(found[k], found[k + 1])
              /\ n < 2 => found = <<>>

\* three words, the first and the last equal, one of them empty, and pairs found
C4_Witness ==
    /\ pal.op = "find_palindrome_pairs"
    /\ ValidWords
    /\ Len(words.items) = 3
    /\ words.items[1] = words.items[3]
    /\ words.items[2] = PyStr(<<>>)
    /\ Len(words.items[1].chars) = 2
    /\ Len(pal.ret.value) >= 4

\* C5: find_longest_palindrome_pair returns None exactly when
\* find_palindrome_pairs finds no pair.
C5_NoneExactlyWhenNoPairs ==
    (pal.op = "find_longest_palindrome_pair" /\ ValidWords) =>
        /\ pal.ret.kind = "return"
        /\ pal.ret.value = None <=> FindPalindromePairs(words).value = <<>>

\* C6: a triple (i, j, length) returned by find_longest_palindrome_pair names a
\* pair found by find_palindrome_pairs, length is the length of its
\* concatenation, no pair found is longer, and every pair found before it is
\* strictly shorter.
C6_LongestIsFirstOfMaximal ==
    (/\ pal.op = "find_longest_palindrome_pair"
     /\ pal.ret.kind = "return"
     /\ pal.ret.value # None) =>
        LET t == pal.ret.value.items
            pairs == FindPalindromePairs(words).value
        IN /\ Len(t) = 3
           /\ \E k \in 1..Len(pairs) :
                 /\ pairs[k] = <<t[1], t[2]>>
                 /\ \A e \in 1..(k - 1) :
                        Len(Concatenation(pairs[e][1], pairs[e][2])) < t[3]
           /\ t[3] = Len(Concatenation(t[1], t[2]))
           /\ \A k \in 1..Len(pairs) : Len(Concatenation(pairs[k][1], pairs[k][2])) <= t[3]

\* a shorter pair is found first, and two pairs share the greatest length
C6_Witness ==
    /\ pal.op = "find_longest_palindrome_pair"
    /\ pal.ret.kind = "return"
    /\ pal.ret.value # None
    /\ LET t == pal.ret.value.items
           pairs == FindPalindromePairs(words).value
       IN /\ Len(Concatenation(pairs[1][1], pairs[1][2])) < t[3]
          /\ \E k \in 1..Len(pairs) :
                /\ pairs[k] # <<t[1], t[2]>>
                /\ Len(Concatenation(pairs[k][1], pairs[k][2])) = t[3]

\* the text reversed
ReversedText == [i \in 1..Len(text.chars) |-> text.chars[Len(text.chars) + 1 - i]]

\* C7: is_palindrome(s) == is_palindrome(reverse(s)); the empty string and the
\* one-character strings are palindromes; is_palindrome(s) is true exactly when
\* s[k] == s[len(s)-1-k] for every k, the characters compared exactly.
C7_PalindromeTest ==
    (pal.op = "is_palindrome" /\ text.isStr) =>
        /\ pal.ret.kind = "return"
        /\ IsPalindrome(PyStr(ReversedText)).kind = "return"
        /\ pal.ret.value = IsPalindrome(PyStr(ReversedText)).value
        /\ Len(text.chars) <= 1 => pal.ret.value = TRUE
        /\ pal.ret.value = TRUE <=> ReadsSame(text.chars)

\* a palindrome of four characters with an upper-case letter and spaces
C7_Witness ==
    /\ pal.op = "is_palindrome"
    /\ text = PyStr(<<"A", " ", " ", "A">>)
    /\ pal.ret = Returned(TRUE)

----------------------------------------------------------------------------
(* Claims about the services, checked under SpecServices *)

\* C8: with no failed call since the median service was constructed or last
\* reset, get_statistics().total_calls is the number of successful
\* calculate_median calls since then; after reset_statistics() the total
\* calls, the cumulative time and the average time are 0.
C8_MedianCallsCounted ==
    /\ ~mfailed => MedianGetStatistics(msvc).value.total_calls = mok
    /\ (last.service = "median" /\ last.op = "reset_statistics") =>
           /\ MedianGetStatistics(msvc).value.total_calls = 0
           /\ MedianGetStatistics(msvc).value.total_execution_time_ms = 0
           /\ MedianGetStatistics(msvc).value.average_execution_time_ms = 0

\* two successful calls and no failed one, then the statistics read
C8_Witness ==
    /\ last.service = "median"
    /\ last.op = "get_statistics"
    /\ mok = 2
    /\ ~mfailed
    /\ last.ret.value.total_calls = 2
    /\ last.ret.value.total_execution_time_ms > 0

\* C9: with no failed call since the palindrome service was constructed or
\* last reset, get_statistics().total_calls is the number of successful calls
\* of find_palindrome_pairs, check_palindrome and find_longest_palindrome_pair
\* since then.
C9_PalindromeCallsCounted ==
    ~pfailed => PalindromeGetStatistics(psvc).value.total_calls = pok

\* C10: a service call that fails raises the service's error to the caller and
\* leaves every counter of both services as it was.
C10_FailedCallLeavesCounters ==
    [][last'.ret.kind = "raise" =>
          /\ msvc' = msvc
          /\ psvc' = psvc
          /\ last'.service = "median" => last'.ret.error = "ArrayOperationError"
          /\ last'.service = "palindrome" => last'.ret.error = "PalindromeOperationError"]_vars

\* calculate_median has just failed on an unsorted array, after successful calls
\* of both services
C10_Witness ==
    /\ last.op = "calculate_median"
    /\ last.ret.kind = "raise"
    /\ last.ret.check = "sorted nums1"
    /\ msvc.call_count > 0
    /\ psvc.call_count > 0
    /\ psvc.pairs_found_total > 0

----------------------------------------------------------------------------
(* Claims about the statistics both services report, checked under        *)
(* SpecServices                                                            *)

\* C11: after any sequence of calls since construction or the last reset, the
\* palindrome service's total_pairs_found is the sum of the pairs_count values
\* its successful find_palindrome_pairs calls returned, and its
\* total_words_processed the sum of their word_count values.
C11_TotalsAreSums ==
    /\ PalindromeGetStatistics(psvc).kind = "return"
    /\ PalindromeGetStatistics(psvc).value.total_pairs_found = sums.pairs
    /\ PalindromeGetStatistics(psvc).value.total_words_processed = sums.words

\* two successful calls that found pairs, and a failed one, since the last reset
C11_Witness ==
    /\ psvc.call_count = 2
    /\ pfailed
    /\ sums.pairs >= 2
    /\ sums.words > sums.pairs
    /\ last.service = "palindrome"
    /\ last.op = "find_palindrome_pairs"
    /\ last.ret.kind = "return"
    /\ last.ret.value.pairs_count > 0

\* the value v, counted in units of 1/scale, is the quotient total / count rounded
\* to the nearest unit
NearestTo(v, total, count, scale) ==
    LET diff == scale * total - count * v
    IN /\ 2 * diff <= count
       /\ 2 * (0 - diff) <= count

\* C12: in every reachable state get_statistics() of either service succeeds;
\* each average it reports is 0 when total_calls is 0 and otherwise the
\* cumulative value divided by total_calls, at the precision reported (3
\* decimals of a millisecond, 2 decimals of a count).
C12_AveragesDefined ==
    LET m == MedianGetStatistics(msvc)
        p == PalindromeGetStatistics(psvc)
    IN /\ m.kind = "return"
       /\ p.kind = "return"
       /\ m.value.total_calls = 0 => m.value.average_execution_time_ms = 0
       /\ m.value.total_calls > 0 =>
              \* the average is in microseconds, the cumulative time in thirds of one
              NearestTo(m.value.average_execution_time_ms,
                        msvc.total_execution_time, 3 * m.value.total_calls, 1)
       /\ p.value.total_calls = 0 =>
              /\ p.value.average_execution_time_ms = 0
              /\ p.value.average_pairs_per_call = 0
              /\ p.value.average_words_per_call = 0
       /\ p.value.total_calls > 0 =>
              /\ NearestTo(p.value.average_execution_time_ms,
                           psvc.total_execution_time, 3 * p.value.total_calls, 1)
              /\ NearestTo(p.value.average_pairs_per_call,
                           p.value.total_pairs_found, p.value.total_calls, 100)
              /\ NearestTo(p.value.average_words_per_call,
                           p.value.total_words_processed, p.value.total_calls, 100)
       /\ last.op = "get_statistics" =>
              last.ret = (IF last.service = "median" THEN m ELSE p)

\* the median service read with no call counted, after a failed call, while the
\* palindrome service reports averages that are not whole
C12_Witness ==
    /\ last.service = "median"
    /\ last.op = "get_statistics"
    /\ last.ret.kind = "return"
    /\ last.ret.value.total_calls = 0
    /\ mfailed
    /\ psvc.call_count = 3
    /\ psvc.pairs_found_total = 2
    /\ psvc.total_execution_time = 1

----------------------------------------------------------------------------
(* Claims about get_palindrome_statistics and about the validation of the  *)
(* palindrome engine, checked under SpecWords and SpecPalindrome            *)

\* C15: for every list of strings the examples of get_palindrome_statistics are
\* the first min(5, pair count) pairs of find_palindrome_pairs, in discovery
\* order, each with its index pair (i, j), the two words (words[i], words[j])
\* and the text words[i] + words[j], which is a palindrome.
C15_ExamplesAreFirstPairs ==
    (pal.op = "get_palindrome_statistics" /\ ValidWords) =>
        /\ pal.ret.kind = "return"
        /\ LET pairs == FindPalindromePairs(words).value
               examples == pal.ret.value.examples
           IN /\ Len(examples) = (IF Len(pairs) < 5 THEN Len(pairs) ELSE 5)
              /\ \A k \in 1..Len(examples) :
                     LET i == pairs[k][1]
                         j == pairs[k][2]
                     IN /\ examples[k].indices = <<i, j>>
                        /\ examples[k].words = <<words.items[i + 1], words.items[j + 1]>>
                        /\ examples[k].palindrome = PyStr(Concatenation(i, j))
                        /\ ReadsSame(examples[k].palindrome.chars)

\* more than 5 pairs found, of which 5 are given as examples
C15_Witness ==
    /\ pal.op = "get_palindrome_statistics"
    /\ ValidWords
    /\ pal.ret.kind = "return"
    /\ pal.ret.value.palindrome_pairs_count > 5
    /\ Len(pal.ret.value.examples) = 5
    /\ \E i \in 1..Len(words.items) : Len(words.items[i].chars) > 0

\* the indices that occur in a pair of find_palindrome_pairs(words)
IndicesInPairs ==
    LET pairs == FindPalindromePairs(words).value
    IN {idx \in 0..(Len(words.items) - 1) :
           \E k \in 1..Len(pairs) : pairs[k][1] = idx \/ pairs[k][2] = idx}

\* C16: for every list of strings get_palindrome_statistics reports total_words =
\* len(words), palindrome_pairs_count = len(find_palindrome_pairs(words)),
\* unique_words_in_pairs = the number of distinct indices occurring in a found
\* pair and has_palindromes = (palindrome_pairs_count > 0); the service's
\* response carries these statistics, and its pairs_count and word_count agree
\* with their palindrome_pairs_count and total_words.
C16_StatisticsCounts ==
    /\ (pal.op = "get_palindrome_statistics" /\ ValidWords) =>
           /\ pal.ret.kind = "return"
           /\ pal.ret.value.total_words = Len(words.items)
           /\ pal.ret.value.palindrome_pairs_count = Len(FindPalindromePairs(words).value)
           /\ pal.ret.value.unique_words_in_pairs = Cardinality(IndicesInPairs)
           /\ pal.ret.value.has_palindromes = (pal.ret.value.palindrome_pairs_count > 0)
    /\ (pal.op = "service.find_palindrome_pairs" /\ ValidWords) =>
           /\ pal.ret.kind = "return"
           /\ pal.ret.value.statistics = GetPalindromeStatistics(words).value
           /\ pal.ret.value.pairs_count = pal.ret.value.statistics.palindrome_pairs_count
           /\ pal.ret.value.word_count = pal.ret.value.statistics.total_words
           /\ pal.ret.value.pairs_count = Len(pal.ret.value.pairs)

\* the service's response for three words of which one occurs in a pair only as
\* the second word and one in no pair
C16_Witness ==
    /\ pal.op = "service.find_palindrome_pairs"
    /\ ValidWords
    /\ pal.ret.kind = "return"
    /\ pal.ret.value.word_count = 3
    /\ pal.ret.value.pairs_count = 1
    /\ pal.ret.value.statistics.unique_words_in_pairs = 2
    /\ pal.ret.value.statistics.has_palindromes

\* C17: find_palindrome_pairs, get_palindrome_statistics and
\* find_longest_palindrome_pair raise PalindromeOperationError whenever an
\* element of the list is not a string, lists of fewer than 2 elements included;
\* is_palindrome and is_palindrome_optimized raise it on an argument that is not
\* a string; a list of strings, empty strings included, is accepted.
C17_NonStringsRejected ==
    /\ (/\ pal.op \in {"find_palindrome_pairs", "get_palindrome_statistics",
                        "find_longest_palindrome_pair"}
        /\ ~words.isNone)
           => IF \E i \in 1..Len(words.items) : words.items[i] = NotAStr
              THEN /\ pal.ret.kind = "raise"
                   /\ pal.ret.error = "PalindromeOperationError"
              ELSE pal.ret.kind = "return"
    /\ pal.op \in {"is_palindrome", "is_palindrome_optimized"}
           => IF text = NotAStr
              THEN /\ pal.ret.kind = "raise"
                   /\ pal.ret.error = "PalindromeOperationError"
              ELSE pal.ret.kind = "return"

\* a list of one element, which is not a string, rejected
C17_Witness ==
    /\ pal.op \in {"find_palindrome_pairs", "get_palindrome_statistics",
                    "find_longest_palindrome_pair"}
    /\ ~words.isNone
    /\ Len(words.items) = 1
    /\ words.items[1] = NotAStr
    /\ pal.ret.kind = "raise"
    /\ pal.ret.error = "PalindromeOperationError"

----------------------------------------------------------------------------
(* Claims about the errors of the median service, checked under            *)
(* SpecServices, and of POST /api/v1/median, checked under SpecApi          *)

\* what the calculation inside calculate_median does on the request: the engine's
\* result, or the TypeError of len() on an array that is None
CalculationOf(request) ==
    IF request.nums1.isNone \/ request.nums2.isNone
    THEN Raised("TypeError", "len")
    ELSE FindMedianSortedArrays(request.nums1, request.nums2)

\* C18: calculate_median raises the engine's ArrayOperationError unchanged, turns
\* any other exception of the calculation into an ArrayOperationError whose
\* message starts with 'Calculation failed', and so ends only with a response or
\* an ArrayOperationError.
C18_OnlyArrayOperationErrors ==
    (last.service = "median" /\ last.op = "calculate_median") =>
        LET calculation == CalculationOf(last.request) IN
        /\ last.ret.kind \in {"return", "raise"}
        /\ last.ret.kind = "raise" => last.ret.error = "ArrayOperationError"
        /\ calculation.kind = "return" =>
               /\ last.ret.kind = "return"
               /\ last.ret.value.median = calculation.value
        /\ calculation.kind = "raise" =>
               IF calculation.error = "ArrayOperationError"
               THEN last.ret = calculation
               ELSE /\ last.ret.kind = "raise"
                    /\ last.ret.check = "Calculation failed"

\* the engine's OverflowError on an int above the float range, converted
C18_Witness ==
    /\ last.service = "median"
    /\ last.op = "calculate_median"
    /\ CalculationOf(last.request) = Raised("OverflowError", "float")
    /\ last.ret = Raised("ArrayOperationError", "Calculation failed")
    /\ msvc.call_count > 0

\* C19: when the median computation raises an exception that is no
\* ArrayOperationError while POST /api/v1/median handles a well-formed request,
\* the response has status 500 and error_code INTERNAL_ERROR.
C19_UnexpectedErrorIs500 ==
    (/\ last.op = "POST /api/v1/median"
     /\ last.request.json = "object"
     /\ MedianRequestFromDict(last.request).kind = "return"
     /\ CalculationOf(MedianRequestFromDict(last.request).value).kind = "raise"
     /\ CalculationOf(MedianRequestFromDict(last.request).value).error
            # "ArrayOperationError")
        => /\ last.ret.value.status = 500
           /\ last.ret.value.error_code = "INTERNAL_ERROR"

\* a list value of a request body that request validation refuses: an item that
\* is no number or is NaN, or an element smaller than the one before it
RefusedArray(value) ==
    \/ value.isNone
    \/ \E i \in 1..Len(value.items) : value.items[i].k \in {"str", "nan"}
    \/ \E i \in 1..(Len(value.items) - 1) :
           value.items[i + 1].k \in {"num", "big"} /\ value.items[i].k \in {"num", "big"}
           /\ Lt(value.items[i + 1], value.items[i])

\* the JSON object fails request validation
FailsRequestValidation(body) ==
    \/ ~body.has1
    \/ ~body.has2
    \/ RefusedArray(body.nums1)
    \/ RefusedArray(body.nums2)

\* C20: POST /api/v1/median with a JSON object that fails request validation (a
\* missing nums1 or nums2, a value that is no list, an item that is no number or
\* is NaN, an unsorted array) answers 422 VALIDATION_ERROR, awaits no service
\* operation and leaves the service's counters as they were; with two empty
\* arrays it passes validation and answers 400 ARRAY_OPERATION_ERROR.
C20_InvalidRequestIs422 ==
    [][(last'.op = "POST /api/v1/median" /\ last'.request.json = "object") =>
          /\ FailsRequestValidation(last'.request) =>
                 /\ last'.ret.value.status = 422
                 /\ last'.ret.value.error_code = "VALIDATION_ERROR"
                 /\ last'.invoked = <<>>
                 /\ msvc' = msvc
          /\ (/\ ~FailsRequestValidation(last'.request)
              /\ last'.request.nums1.items = <<>>
              /\ last'.request.nums2.items = <<>>) =>
                 /\ last'.ret.value.status = 400
                 /\ last'.ret.value.error_code = "ARRAY_OPERATION_ERROR"
                 /\ last'.invoked = <<"calculate_median">>
                 /\ msvc' = msvc]_vars

\* an unsorted array refused after two calls were counted
C20_Witness ==
    /\ last.op = "POST /api/v1/median"
    /\ last.request.json = "object"
    /\ last.request.has1 /\ last.request.has2
    /\ ~last.request.nums1.isNone
    /\ Len(last.request.nums1.items) = 2
    /\ Lt(last.request.nums1.items[2], last.request.nums1.items[1])
    /\ last.ret.value.status = 422
    /\ last.invoked = <<>>
    /\ msvc.call_count = 2
    /\ msvc.total_execution_time > 0

----------------------------------------------------------------------------
(* Claims about the counters under concurrent requests, checked under       *)
(* SpecConcurrent                                                           *)

AllDone == \A t \in DOMAIN tasks : Done(tasks[t])

IsCall(task) == task.op \in {"calculate_median", "find_palindrome_pairs"}

IsReset(task) == task.op \in {"median.reset_statistics", "palindrome.reset_statistics"}

IsRead(task) == task.op \in {"median.get_statistics", "palindrome.get_statistics"}

\* what the calls among the first n tasks contribute to the counter field
RECURSIVE Contributed(_, _)
Contributed(field, n) ==
    IF n = 0 THEN 0
    ELSE Contributed(field, n - 1)
         + (IF IsCall(tasks[n]) THEN tasks[n].add[field] ELSE 0)

\* C13: when K calls of calculate_median (of find_palindrome_pairs) dispatched
\* concurrently on the shared instance have all completed, in whatever order the
\* loop ran them, reads among them but no reset, total_calls is K and each
\* cumulative total is the sum of what the calls contributed: no update is lost.
C13_NoLostUpdate ==
    (AllDone /\ \A t \in DOMAIN tasks : ~IsReset(tasks[t])) =>
        LET K == Cardinality({t \in DOMAIN tasks : IsCall(tasks[t])})
            n == Len(tasks)
        IN IF ServiceOf(tasks[1].op) = "median"
           THEN /\ msvc.call_count = K
                /\ msvc.total_execution_time = Contributed("total_execution_time", n)
           ELSE /\ psvc.call_count = K
                /\ psvc.total_execution_time = Contributed("total_execution_time", n)
                /\ psvc.pairs_found_total = Contributed("pairs_found_total", n)
                /\ psvc.words_processed_total = Contributed("words_processed_total", n)

\* three concurrent find_palindrome_pairs calls, all completed
C13_Witness ==
    /\ AllDone
    /\ Len(tasks) = 3
    /\ \A t \in DOMAIN tasks : tasks[t].op = "find_palindrome_pairs"
    /\ psvc.call_count = 3
    /\ psvc.total_execution_time = 6
    /\ psvc.pairs_found_total > psvc.words_processed_total \div 3
    /\ psvc.words_processed_total = 9

\* C14: reset_statistics is one step for every concurrent call and read: whenever
\* the loop is free the counters are those of the calls whose update came after
\* the last reset, each counted in full (after a reset followed by k completed
\* calls total_calls = k), and every get_statistics snapshot is the one of such
\* a state, never of counters zeroed in part.
C14_ResetAtomic ==
    /\ running = 0 =>
           /\ msvc = Expected("median")
           /\ psvc = Expected("palindrome")
    /\ \A t \in DOMAIN tasks :
           (IsRead(tasks[t]) /\ Done(tasks[t])) => tasks[t].snap = tasks[t].want

\* two calls and a reset, all completed, one call counted: its update came after
\* the reset, the other's before
C14_Witness ==
    /\ AllDone
    /\ Len(tasks) = 3
    /\ Cardinality({t \in DOMAIN tasks : tasks[t].op = "calculate_median"}) = 2
    /\ \E t \in DOMAIN tasks : tasks[t].op = "median.reset_statistics"
    /\ msvc.call_count = 1
    /\ msvc.total_execution_time = 1
    /\ tasks[1].op = "calculate_median"

----------------------------------------------------------------------------
(* Claims about the batch endpoints, checked under SpecBatch *)

BatchOps == {"POST /api/v1/median/batch", "POST /api/v1/palindrome/batch"}

\* the size limit of the batch endpoint of the service
LimitOf(service) == IF service = "median" THEN MedianBatchLimit ELSE PalindromeBatchLimit

\* whether the item, handled on its own, is a success
SucceedsAlone(service, item) ==
    IF service = "median"
    THEN MedianBatchPass(NewMedianService, BatchStart, 0, item, MaxDur).loop.successful = 1
    ELSE PalindromeBatchPass(NewPalindromeService, BatchStart, 0, item, MaxDur)
             .loop.successful = 1

\* C21: a batch request whose body carries the required array, of a length within
\* the limit, is answered 200 with one result entry per item, in input order,
\* the entry of the item at position k having index k; successful + failed =
\* total = the number of items; an item that fails does not keep the items after
\* it from being processed, those that are valid being reported as successes.
C21_OneEntryPerItem ==
    (/\ last.op \in BatchOps
     /\ last.ret.kind = "return"
     /\ last.request.json = "object"
     /\ last.request.isList
     /\ Len(last.request.items) <= LimitOf(last.service)) =>
        LET response == last.ret.value
            items == last.request.items
        IN /\ response.status = 200
           /\ Len(response.data.results) = Len(items)
           /\ response.data.total = Len(items)
           /\ response.data.successful + response.data.failed = response.data.total
           /\ \A k \in 1..Len(items) :
                  /\ response.data.results[k].index = k - 1
                  /\ response.data.results[k].status = "success"
                         <=> SucceedsAlone(last.service, items[k])

----------------------------------------------------------------------------
(* Claims about the partition search of the median engine, checked under    *)
(* SpecSearch                                                               *)

\* a list that passes the engine's validation: ints and floats that are not NaN,
\* in non-descending order
PassesValidation(a) ==
    /\ ~a.isNone
    /\ \A i \in 1..Len(a.items) : a.items[i].k \in {"num", "-inf", "+inf", "big"}
    /\ \A i \in 1..(Len(a.items) - 1) : Le(a.items[i], a.items[i + 1])

SearchInput ==
    /\ PassesValidation(arg1)
    /\ PassesValidation(arg2)
    /\ Len(arg1.items) > 0
    /\ Len(arg2.items) > 0

\* the shorter of the caller's arrays, the first one when they are as long
Shorter == IF Len(arg1.items) > Len(arg2.items) THEN arg2.items ELSE arg1.items

Longer2 == IF Len(arg1.items) > Len(arg2.items) THEN arg1.items ELSE arg2.items

\* the first i elements of the shorter array and the first j of the longer one are
\* the lower half: none of them is greater than an element left out
SplitsInHalves(i, j) ==
    /\ i \in 0..Len(Shorter)
    /\ j \in 0..Len(Longer2)
    /\ i + j = (Len(Shorter) + Len(Longer2) + 1) \div 2
    /\ \A a \in 1..i : \A b \in (j + 1)..Len(Longer2) : Le(Shorter[a], Longer2[b])
    /\ \A b \in 1..j : \A a \in (i + 1)..Len(Shorter) : Le(Longer2[b], Shorter[a])

\* C23: on two validated, non-empty, sorted arrays the window [left, right] of the
\* partition search is never empty when the loop test is made, and the search
\* ends by returning from a partition with maxLeftX <= minRightY and maxLeftY <=
\* minRightX; it never raises 'Unable to find median'.
C23_PartitionFound ==
    SearchInput =>
        /\ med.pc = "loop" => med.left <= med.right
        /\ med.pc = "done" =>
               /\ med.ret.kind = "return"
               /\ SplitsInHalves(PartitionX(med), PartitionY(med))

\* a search that took more than one pass, an infinite float among the elements
C23_Witness ==
    /\ SearchInput
    /\ med.pc = "done"
    /\ med.ret.kind = "return"
    /\ med.passes >= 2
    /\ \E i \in 1..Len(arg1.items) : arg1.items[i] = PosInf
    /\ \E i \in 1..Len(arg2.items) : arg2.items[i].k = "num"

\* C24: each pass of the loop that does not return makes the window [left, right]
\* strictly smaller, by right = partitionX - 1 or by left = partitionX + 1, and
\* the loop makes at most m + 1 passes, m the length of the shorter array: the
\* search terminates.
C24_WindowShrinks ==
    [][med.pc = "loop" =>
          /\ med'.passes <= med'.m + 1
          /\ med'.m = Len(Shorter)
          /\ (med'.pc = "loop" /\ med' # med) =>
                 /\ med'.right - med'.left < med.right - med.left
                 /\ \/ med'.right = PartitionX(med) - 1 /\ med'.left = med.left
                    \/ med'.left = PartitionX(med) + 1 /\ med'.right = med.right]_vars

\* a search over a shorter array of 3 elements that needed 3 passes
C24_Witness ==
    /\ med.pc = "done"
    /\ med.m = 3
    /\ med.passes = 3
    /\ med.ret.kind = "return"

\* C25: in every pass of the loop nums1 is the shorter array, 0 <= partition_x <=
\* m and 0 <= partition_y <= n, so every element read (nums1[partition_x - 1],
\* nums1[partition_x], nums2[partition_y - 1], nums2[partition_y]) where no
\* sentinel stands for it has its index inside the array.
C25_PartitionInRange ==
    (med.pc = "loop" /\ med.left <= med.right) =>
        LET x == PartitionX(med)
            y == PartitionY(med)
        IN /\ med.m = Len(med.nums1.items)
           /\ med.n = Len(med.nums2.items)
           /\ med.m <= med.n
           /\ 0 <= x /\ x <= med.m
           /\ 0 <= y /\ y <= med.n
           /\ x # 0 => (x - 1) \in 0..(Len(med.nums1.items) - 1)
           /\ x # med.m => x \in 0..(Len(med.nums1.items) - 1)
           /\ y # 0 => (y - 1) \in 0..(Len(med.nums2.items) - 1)
           /\ y # med.n => y \in 0..(Len(med.nums2.items) - 1)

\* the caller's first array is the longer one, and the pass is made at the right
\* end of the shorter one, where partition_x = m and partition_y < n
C25_Witness ==
    /\ med.pc = "loop"
    /\ med.left <= med.right
    /\ Len(arg1.items) > Len(arg2.items)
    /\ med.nums1 = arg2
    /\ PartitionX(med) = med.m
    /\ PartitionY(med) > 0
    /\ PartitionY(med) < med.n

----------------------------------------------------------------------------
(* Claims about the order of the engine's validation, checked under         *)
(* SpecValidation                                                           *)

\* the lowest index of the set
Lowest(S) == CHOOSE i \in S : \A j \in S : i <= j

\* the indices (0-based) of the elements that are no number or are NaN
Offending(a) == {i \in 0..(Len(a.items) - 1) : a.items[i + 1].k \in {"str", "nan"}}

\* the indices i of the elements smaller than the element before them
Descents(a) ==
    {i \in 1..(Len(a.items) - 1) :
        /\ a.items[i + 1].k = "num"
        /\ a.items[i].k = "num"
        /\ a.items[i + 1].v < a.items[i].v}

\* C26: find_median_sorted_arrays raises the error of the first check that fails
\* in the order None inputs, contents of nums1, contents of nums2, order of
\* nums1, order of nums2, both empty, whatever the later checks would find, and
\* names the lowest offending index of the array.
C26_FirstViolationReported ==
    med.pc = "done" =>
        IF arg1.isNone \/ arg2.isNone
        THEN med.ret = Raised("ArrayOperationError", "none")
        ELSE IF Offending(arg1) # {}
        THEN med.ret = RaisedAt("ArrayOperationError", "contents nums1",
                                Lowest(Offending(arg1)))
        ELSE IF Offending(arg2) # {}
        THEN med.ret = RaisedAt("ArrayOperationError", "contents nums2",
                                Lowest(Offending(arg2)))
        ELSE IF Descents(arg1) # {}
        THEN med.ret = RaisedAt("ArrayOperationError", "sorted nums1",
                                Lowest(Descents(arg1)))
        ELSE IF Descents(arg2) # {}
        THEN med.ret = RaisedAt("ArrayOperationError", "sorted nums2",
                                Lowest(Descents(arg2)))
        ELSE IF Len(arg1.items) = 0 /\ Len(arg2.items) = 0
        THEN med.ret = Raised("ArrayOperationError", "both empty")
        ELSE med.ret.kind = "return"

\* the first array is out of order, the second holds a NaN and a non-number at
\* its last two indices after a descent: the NaN of the second array is reported
C26_Witness ==
    /\ med.pc = "done"
    /\ ~arg1.isNone
    /\ ~arg2.isNone
    /\ Offending(arg1) = {}
    /\ Descents(arg1) # {}
    /\ Len(arg2.items) = 3
    /\ Offending(arg2) = {1, 2}
    /\ arg2.items[2] = NaN
    /\ med.ret = RaisedAt("ArrayOperationError", "contents nums2", 1)

----------------------------------------------------------------------------
(* Claims about what calculate_median does with its request, checked under  *)
(* SpecServices                                                             *)

----------------------------------------------------------------------------
(* Claims about the two palindrome tests, checked under SpecAgree *)

\* the list of the two words text[:k] and text[k:]
SplitAt(k) ==
    List(<<PyStr(SubSeq(text.chars, 1, k)),
           PyStr(SubSeq(text.chars, k + 1, Len(text.chars)))>>)

\* find_palindrome_pairs reports the pair (0, 1) of a list of two words
FirstThenSecond(ws) ==
    \E k \in 1..Len(FindPalindromePairs(ws).value) :
        FindPalindromePairs(ws).value[k] = <<0, 1>>

\* C28: on every string is_palindrome_optimized returns what is_palindrome
\* returns, and the other way round; check_palindrome of the service answers with
\* that boolean, so that it says "palindrome" for a text exactly when
\* find_palindrome_pairs reports the pair of any two words the text splits into.
C28_TestsAgree ==
    text.isStr =>
        /\ pal.op = "is_palindrome_optimized" =>
               /\ pal.ret.kind = "return"
               /\ pal.ret = IsPalindrome(text)
        /\ pal.op = "is_palindrome" =>
               /\ pal.ret.kind = "return"
               /\ pal.ret = IsPalindromeOptimized(text)
        /\ last.op = "check_palindrome" =>
               /\ last.ret.kind = "return"
               /\ last.ret.value.text = text
               /\ last.ret.value.is_palindrome = IsPalindrome(text).value
               /\ pal.op = "is_palindrome" =>
                      last.ret.value.is_palindrome = pal.ret.value
               /\ \A k \in 0..Len(text.chars) :
                      last.ret.value.is_palindrome <=> FirstThenSecond(SplitAt(k))

\* a text of even length that both tests call no palindrome because of its two
\* middle characters alone, the last pair the scan compares
C28_Witness ==
    /\ text = PyStr(<<"a", "b", "A", "a">>)
    /\ pal.op = "is_palindrome"
    /\ pal.ret = Returned(FALSE)
    /\ last.op = "check_palindrome"
    /\ last.ret.kind = "return"
    /\ last.ret.value.is_palindrome = FALSE
    /\ ~FirstThenSecond(SplitAt(2))

----------------------------------------------------------------------------
(* Claims about the services and their history, checked under SpecServices *)

ServiceCalls ==
    {"calculate_median", "find_palindrome_pairs", "check_palindrome",
     "find_longest_palindrome_pair"}

\* how a call ends, the measured time left out
Outcome(ret) ==
    IF ret.kind = "return" THEN [ret EXCEPT !.value.execution_time_ms = 0] ELSE ret

\* how the same call ends on a service that has just been constructed
OnNewService(op, request) ==
    CASE op = "calculate_median" -> CalculateMedian(NewMedianService, request, 0).ret
      [] op = "find_palindrome_pairs" ->
             ServiceFindPalindromePairs(NewPalindromeService, request, 0).ret
      [] op = "check_palindrome" ->
             ServiceCheckPalindrome(NewPalindromeService, request, 0).ret
      [] op = "find_longest_palindrome_pair" ->
             ServiceFindLongestPalindromePair(NewPalindromeService, request, 0).ret

CountersSound ==
    /\ msvc.call_count >= 0
    /\ msvc.total_execution_time >= 0
    /\ msvc.call_count = 0 => msvc.total_execution_time = 0
    /\ psvc.call_count >= 0
    /\ psvc.total_execution_time >= 0
    /\ psvc.pairs_found_total >= 0
    /\ psvc.words_processed_total >= 0
    /\ psvc.call_count = 0 =>
           /\ psvc.total_execution_time = 0
           /\ psvc.pairs_found_total = 0
           /\ psvc.words_processed_total = 0

\* what get_statistics reports for a service with no call counted
ReportsSound ==
    /\ MedianGetStatistics(msvc).kind = "return"
    /\ PalindromeGetStatistics(psvc).kind = "return"
    /\ MedianGetStatistics(msvc).value.total_calls = 0 =>
           MedianGetStatistics(msvc).value.total_execution_time_ms = 0
    /\ PalindromeGetStatistics(psvc).value.total_calls = 0 =>
           /\ PalindromeGetStatistics(psvc).value.total_execution_time_ms = 0
           /\ PalindromeGetStatistics(psvc).value.total_pairs_found = 0
           /\ PalindromeGetStatistics(psvc).value.total_words_processed = 0

\* C30: before and after every operation of the two services, in any order, all
\* counters are non-negative, and total_calls = 0 comes with a cumulative time of 0
\* and, for the palindrome service, 0 pairs found and 0 words processed, in the
\* counters and in what get_statistics reports; a step of get_statistics leaves
\* every counter as it was; reset_statistics leaves counters that a further
\* reset_statistics does not change, and a reset_statistics that directly follows
\* one of the same service changes nothing.
C30_CountersSound ==
    [][/\ CountersSound
       /\ CountersSound'
       /\ ReportsSound
       /\ ReportsSound'
       /\ last'.op = "get_statistics" => (msvc' = msvc /\ psvc' = psvc)
       /\ (last'.op = "reset_statistics" /\ last'.service = "median") =>
              /\ MedianResetStatistics(msvc') = msvc'
              /\ psvc' = psvc
              /\ (last.op = "reset_statistics" /\ last.service = "median") => msvc' = msvc
       /\ (last'.op = "reset_statistics" /\ last'.service = "palindrome") =>
              /\ PalindromeResetStatistics(psvc') = psvc'
              /\ msvc' = msvc
              /\ (last.op = "reset_statistics" /\ last.service = "palindrome") =>
                     psvc' = psvc]_vars

\* get_statistics of the median service after two counted calculations that took
\* time and a failed one, the palindrome service having nothing counted
C30_Witness ==
    /\ last.service = "median"
    /\ last.op = "get_statistics"
    /\ last.ret.kind = "return"
    /\ last.ret.value.total_calls = 2
    /\ msvc.call_count = 2
    /\ msvc.total_execution_time > 0
    /\ mfailed
    /\ psvc = NewPalindromeService
    /\ pok = 0
    /\ ~pfailed

====
